---- MODULE Spec2Model ----
(***************************************************************************)
(* State-machine model of the real-time DSP core of web-synth:             *)
(*   - engine/dsp/src/circular_buffer.rs   CircularBuffer<LENGTH>          *)
(*   - engine/adsr/src/lib.rs              Adsr envelope generator         *)
(*                                                                         *)
(* f32 values are modelled as exact rationals <<num, den>> (den > 0, in    *)
(* lowest terms).  Every input the specifications draw is dyadic (k/2^n),  *)
(* for which the f32 additions, minima and comparisons of the code are     *)
(* exact, so the rational value is the f32 value.                          *)
(***************************************************************************)
EXTENDS Integers, Sequences, FiniteSets, TLC

-----------------------------------------------------------------------------
(* Exact arithmetic standing for f32                                        *)

Abs(n) == IF n < 0 THEN -n ELSE n

RECURSIVE GCD(_, _)
GCD(a, b) == IF b = 0 THEN a ELSE GCD(b, a % b)

\* the rational n/d in lowest terms with a positive denominator
Rat(n, d) ==
  LET g == GCD(Abs(n), Abs(d))
      s == IF d < 0 THEN -1 ELSE 1
  IN  <<(s * n) \div g, Abs(d) \div g>>

R(n) == <<n, 1>>
Zero == R(0)
One == R(1)

\* a sum over the larger denominator when it is a multiple of the other (always
\* so for dyadic values), which keeps the intermediate products small
RAdd(a, b) ==
  IF a[2] % b[2] = 0 THEN Rat(a[1] + b[1] * (a[2] \div b[2]), a[2])
  ELSE IF b[2] % a[2] = 0 THEN Rat(a[1] * (b[2] \div a[2]) + b[1], b[2])
  ELSE LET g == GCD(a[2], b[2])
       IN  Rat(a[1] * (b[2] \div g) + b[1] * (a[2] \div g), (a[2] \div g) * b[2])
RSub(a, b) == RAdd(a, <<-b[1], b[2]>>)
RMul(a, b) == Rat(a[1] * b[1], a[2] * b[2])
RDiv(a, b) == Rat(a[1] * b[2], a[2] * b[1])
RLt(a, b) == RSub(a, b)[1] < 0
RLe(a, b) == RSub(a, b)[1] <= 0
RMin(a, b) == IF RLe(a, b) THEN a ELSE b
RAbs(a) == <<Abs(a[1]), a[2]>>

\* f32::trunc as an integer: rounding toward zero
TruncInt(a) == IF a[1] >= 0 THEN a[1] \div a[2] ELSE -((-a[1]) \div a[2])

\* f32::fract: the fractional part, with the sign of the operand
Fract(a) == RSub(a, R(TruncInt(a)))

\* Rust's % on isize: the remainder has the sign of the dividend
Rem(a, b) == IF a >= 0 THEN a % b ELSE -((-a) % b)

\* F applied to the value of v, v being evaluated once
WithValue(v, F(_)) == CHOOSE r \in {F(x) : x \in {v}} : TRUE

\* dsp::mix(mix_factor, a, b): a weighted by mix_factor, b by 1 - mix_factor
mix(mix_factor, a, b) == RAdd(RMul(mix_factor, a), RMul(RSub(One, mix_factor), b))

\* the k with 2^k <= x < 2^(k+1), x > 0
RECURSIVE Log2Floor(_)
Log2Floor(x) ==
  IF RLt(x, One) THEN Log2Floor(RMul(x, R(2))) - 1
  ELSE IF RLt(x, R(2)) THEN 0
  ELSE Log2Floor(RDiv(x, R(2))) + 1

Pow2(k) == IF k >= 0 THEN R(2 ^ k) ELSE Rat(1, 2 ^ (-k))

\* a rounded to the nearest multiple of ulp = 1/n
RoundTo(a, ulp) ==
  LET g == GCD(a[2], ulp[2])
  IN  Rat((2 * a[1] * (ulp[2] \div g) + (a[2] \div g)) \div (2 * (a[2] \div g)), ulp[2])

\* f32 addition of a and b with a + b > 0: the sum rounded to a significand
\* of 24 bits.  A sum whose numerator is below 2^24 is taken as exact, which
\* it is for the dyadic values that the phases are.
f32_add(a, b) ==
  LET sum == RAdd(a, b)
  IN  IF sum[1] < 2 ^ 24 THEN sum
      ELSE RoundTo(sum, Pow2(Log2Floor(sum) - 23))

-----------------------------------------------------------------------------
(* Bounds                                                                   *)

\* capacity of the CircularBuffer under check (the const generic LENGTH)
LENGTH == 4
\* sample values written to the ring are 1..MaxVal
MaxVal == 2

-----------------------------------------------------------------------------
(* CircularBuffer<LENGTH>: a record [buffer, head]; buffer is indexed       *)
(* 0..LENGTH-1 as in the source.                                            *)

CircularBuffer_new(N) == [buffer |-> [i \in 0..(N - 1) |-> Zero], head |-> 0]

CB_new == CircularBuffer_new(LENGTH)

\* the const generic LENGTH of the ring cb
CB_LENGTH(cb) == Cardinality(DOMAIN cb.buffer)

\* a set() that stores before it advances the head
CB_set_StoreBeforeAdvance(cb, val) ==
  LET h == IF cb.head + 1 >= CB_LENGTH(cb) THEN 0 ELSE cb.head + 1
  IN  [buffer |-> [cb.buffer EXCEPT ![cb.head] = val], head |-> h]

CB_set(cb, val) ==
  LET h == IF cb.head + 1 >= CB_LENGTH(cb) THEN 0 ELSE cb.head + 1
  IN  [buffer |-> [cb.buffer EXCEPT ![h] = val], head |-> h]

\* the slot get(ix) resolves to
CB_get_slot(cb, ix) ==
  LET i == Rem(cb.head + ix, CB_LENGTH(cb) - 1)
  IN  IF i >= 0 THEN i ELSE CB_LENGTH(cb) + i

CB_get(cb, ix) == cb.buffer[CB_get_slot(cb, ix)]

\* get as a build with or without debug assertions runs it: the
\* debug_assert!(ix <= 0), then the read
CB_get_call(cb, ix, debug_assertions) ==
  IF debug_assertions /\ ~(ix <= 0) THEN [panicked |-> TRUE, ret |-> Zero]
  ELSE [panicked |-> FALSE, ret |-> CB_get(cb, ix)]

\* sample_ix is a rational <= 0
CB_read_interpolated(cb, sample_ix) ==
  IF sample_ix = Zero
  THEN cb.buffer[cb.head]
  ELSE LET base_ix == TruncInt(sample_ix)
           next_ix == base_ix - 1   \* signum of a negative sample_ix is -1
           base_val == CB_get(cb, base_ix)
           next_val == CB_get(cb, next_ix)
       IN  mix(RSub(One, RAbs(Fract(sample_ix))), base_val, next_val)

-----------------------------------------------------------------------------
(* Adsr (engine/adsr/src/lib.rs)                                            *)

\* samples per audio frame
FRAME_SIZE == 128

\* Entries of the shared rendered table.  The source fixes 44_100; the model
\* scales the table down, every index computation is kept in terms of it.
RENDERED_BUFFER_SIZE == 8

None == [some |-> FALSE, val |-> Zero]
Some(v) == [some |-> TRUE, val |-> v]

AdsrStep(x, y, ramper) == [x |-> x, y |-> y, ramper |-> ramper]

DEFAULT_FIRST_STEP == AdsrStep(Zero, Zero, "Instant")

\* RampFn::Instant and RampFn::Linear (the step lists drawn below use no
\* Exponential ramper)
compute_pos(prev_step, next_step, phase) ==
  IF next_step.ramper = "Instant"
  THEN prev_step.y
  ELSE LET y_diff == RSub(next_step.y, prev_step.y)
           distance == RSub(next_step.x, prev_step.x)
           pct_complete == RDiv(RSub(phase, prev_step.x), distance)
       IN  RAdd(prev_step.y, RMul(pct_complete, y_diff))

\* Adsr::new: gate_status Done, phase 0; cur_frame_output is uninitialized
\* memory, so its content is whatever the caller's heap held (uninit).
Adsr_new(steps, loop_point, len_samples, release_start_phase, uninit) ==
  [phase |-> Zero,
   gate_status |-> "Done",
   release_start_phase |-> release_start_phase,
   steps |-> steps,
   loop_point |-> loop_point,
   cur_frame_output |-> uninit,
   len_samples |-> len_samples,
   cached_phase_diff_per_sample |-> RDiv(One, len_samples)]

gate(a) == [a EXCEPT !.phase = Zero, !.gate_status = "Gated"]

\* an ungate() that forgets to move the phase to the release point
ungate_KeepPhase(a) == [a EXCEPT !.gate_status = "Releasing"]

ungate(a) == [a EXCEPT !.phase = a.release_start_phase, !.gate_status = "Releasing"]

\* the `while let` of render(): move through the steps that lie before phase;
\* next_step_ix is 1-based here, past the end means next_step_opt = None
RECURSIVE render_skip_steps(_, _, _, _)
render_skip_steps(steps, prev_step_opt, next_step_ix, phase) ==
  IF next_step_ix <= Len(steps) /\ ~RLe(phase, steps[next_step_ix].x)
  THEN render_skip_steps(steps, Some(steps[next_step_ix]), next_step_ix + 1, phase)
  ELSE [prev_step_opt |-> prev_step_opt, next_step_ix |-> next_step_ix]

\* iterations i..RENDERED_BUFFER_SIZE-1 of render()'s loop; buf[i + 1] is the
\* source's buf[i]
RECURSIVE render_loop(_, _, _, _, _)
render_loop(steps, i, prev_step_opt, next_step_ix, buf) ==
  IF i >= RENDERED_BUFFER_SIZE
  THEN buf
  ELSE LET phase == Rat(i, RENDERED_BUFFER_SIZE)
           w == render_skip_steps(steps, prev_step_opt, next_step_ix, phase)
           prev_opt == w.prev_step_opt
           val == IF w.next_step_ix > Len(steps)
                  THEN (IF prev_opt.some THEN prev_opt.val.y ELSE Zero)
                  ELSE compute_pos(IF prev_opt.some THEN prev_opt.val
                                   ELSE DEFAULT_FIRST_STEP,
                                   steps[w.next_step_ix], phase)
       IN  render_loop(steps, i + 1, prev_opt, w.next_step_ix,
                       [buf EXCEPT ![i + 1] = val])

\* Adsr::render: the new content of the shared table
render(a, buf) == render_loop(a.steps, 0, None, 1, buf)

\* dsp::read_interpolated(buf, index) on a slice: linear interpolation between
\* buf[trunc(index)] and its successor
read_interpolated(buf, index) ==
  LET base_ix == TruncInt(index)
  IN  mix(RSub(One, Fract(index)), buf[base_ix + 1], buf[base_ix + 2])

\* the phase after the clamped increment, before the release-point check
advance_clamped(a) == RMin(f32_add(a.phase, a.cached_phase_diff_per_sample), One)

\* the release-point branch of advance_phase is taken
crosses_release(a) ==
  a.gate_status = "Gated" /\ RLe(a.release_start_phase, advance_clamped(a))

\* an advance_phase() whose lock drops the phase to 0 instead of the release point
advance_phase_LockAtZero(a) ==
  LET p == advance_clamped(a)
  IN  IF crosses_release(a)
      THEN IF a.loop_point.some
           THEN LET overflow_amount == RSub(p, a.release_start_phase)
                    loop_size == RSub(a.release_start_phase, a.loop_point.val)
                IN  [a EXCEPT !.phase = RAdd(a.loop_point.val,
                                             R(TruncInt(RDiv(overflow_amount, loop_size))))]
           ELSE [a EXCEPT !.phase = Zero]
      ELSE [a EXCEPT !.phase = p]

advance_phase(a) ==
  LET p == advance_clamped(a)
  IN  IF crosses_release(a)
      THEN IF a.loop_point.some
           THEN LET overflow_amount == RSub(p, a.release_start_phase)
                    loop_size == RSub(a.release_start_phase, a.loop_point.val)
                IN  [a EXCEPT !.phase = RAdd(a.loop_point.val,
                                             R(TruncInt(RDiv(overflow_amount, loop_size))))]
           ELSE [a EXCEPT !.phase = a.release_start_phase]
      ELSE [a EXCEPT !.phase = p]

\* debug_assert!(self.phase >= 0. && self.phase <= 1.)
phase_in_range(a) == RLe(Zero, a.phase) /\ RLe(a.phase, One)

\* get_sample: the advanced Adsr, whether the sample could be produced, the
\* sample.  With phase outside [0, 1] a debug build fails the assertion; a
\* release build indexes the rendered table past its end (44_100 entries,
\* index phase * 44_098).  Both end the frame, so ok = FALSE aborts.
get_sample(a, buf) ==
  WithValue(advance_phase(a), LAMBDA b :
    [adsr |-> b,
     ok |-> phase_in_range(b),
     sample |-> IF phase_in_range(b)
                THEN read_interpolated(buf, RMul(b.phase, R(RENDERED_BUFFER_SIZE - 2)))
                ELSE Zero])

\* one record of the per-sample history of a frame
TraceEntry(a, b) ==
  [before |-> a.phase, after |-> b.phase,
   rewrap |-> crosses_release(a) /\ a.loop_point.some,
   lock |-> crosses_release(a) /\ ~a.loop_point.some]

\* The per-sample loop of render_frame: the n iterations that fill slots
\* i .. i+n-1 (0-based), in index order; the span is evaluated as its first
\* half followed by its second half.  An iteration that cannot produce its
\* sample ends the loop.
RECURSIVE render_frame_loop(_, _, _, _)
render_frame_loop(a, buf, i, n) ==
  IF n <= 0
  THEN [adsr |-> a, trace |-> <<>>, panicked |-> FALSE]
  ELSE IF n = 1
  THEN WithValue(get_sample(a, buf), LAMBDA g :
         [adsr |-> IF g.ok
                   THEN [g.adsr EXCEPT !.cur_frame_output[i + 1] = g.sample]
                   ELSE g.adsr,
          trace |-> <<TraceEntry(a, g.adsr)>>,
          panicked |-> ~g.ok])
  ELSE WithValue(render_frame_loop(a, buf, i, n \div 2), LAMBDA first :
         IF first.panicked
         THEN first
         ELSE WithValue(render_frame_loop(first.adsr, buf, i + n \div 2, n - n \div 2),
                LAMBDA second :
                  [adsr |-> second.adsr,
                   trace |-> first.trace \o second.trace,
                   panicked |-> second.panicked]))

Filled(v) == [i \in 1..FRAME_SIZE |-> v]

\* a render_frame() without the arm that freezes a gated Adsr at its release point
render_frame_NoFreezeArm(a, buf) ==
  IF a.gate_status = "Releasing" /\ RLe(One, a.phase)
  THEN render_frame_loop([a EXCEPT !.cur_frame_output = Filled(buf[Len(buf)]),
                                   !.gate_status = "Done"], buf, 0, FRAME_SIZE)
  ELSE IF a.gate_status \in {"GatedFrozen", "Done"}
  THEN [adsr |-> a, trace |-> <<>>, panicked |-> FALSE]
  ELSE render_frame_loop(a, buf, 0, FRAME_SIZE)

\* a render_frame() that freezes in the frame in which the release point is reached
render_frame_FreezeAtOnce(a, buf) ==
  IF a.gate_status \in {"GatedFrozen", "Done"}
  THEN [adsr |-> a, trace |-> <<>>, panicked |-> FALSE]
  ELSE WithValue(render_frame_loop(a, buf, 0, FRAME_SIZE), LAMBDA r :
         IF /\ r.adsr.gate_status = "Gated"
            /\ ~r.adsr.loop_point.some
            /\ RLe(r.adsr.release_start_phase, r.adsr.phase)
         THEN [r EXCEPT !.adsr.gate_status = "GatedFrozen"]
         ELSE r)

\* Adsr::render_frame: the Adsr after the call, the per-sample history of the
\* call (one entry per get_sample), and whether the call aborted
render_frame(a, buf) ==
  IF a.gate_status = "Gated" /\ ~a.loop_point.some /\ RLe(a.release_start_phase, a.phase)
  THEN WithValue(get_sample(a, buf), LAMBDA g :
         [adsr |-> [g.adsr EXCEPT !.cur_frame_output = Filled(g.sample),
                                  !.gate_status = "GatedFrozen"],
          trace |-> <<TraceEntry(a, g.adsr)>>,
          panicked |-> ~g.ok])
  ELSE IF a.gate_status = "Releasing" /\ RLe(One, a.phase)
  THEN \* no return in this arm: the per-sample loop below still runs
       render_frame_loop([a EXCEPT !.cur_frame_output = Filled(buf[Len(buf)]),
                                   !.gate_status = "Done"], buf, 0, FRAME_SIZE)
  ELSE IF a.gate_status \in {"GatedFrozen", "Done"}
  THEN [adsr |-> a, trace |-> <<>>, panicked |-> FALSE]
  ELSE render_frame_loop(a, buf, 0, FRAME_SIZE)

-----------------------------------------------------------------------------
-----------------------------------------------------------------------------
(* Compressor and MultibandCompressor (engine/compressor/src/lib.rs)        *)
(*                                                                          *)
(* Sizes are scaled: the frame (FRAME_SIZE = 128 in the source) to          *)
(* COMP_FRAME_SIZE samples, the lookahead rings (MAX_LOOKAHEAD_SAMPLES =    *)
(* 2205) and the detection window (the literal 5800) in proportion, the     *)
(* window staying more than twice as long as a ring as in the source.       *)
(*                                                                          *)
(* Levels.  sqrt, log10 and powf are not rational.  The model keeps the     *)
(* structure of the source (a linear level, its dB value, a linear gain)    *)
(* and rounds where f32 rounds too, only more coarsely: sqrt is rounded     *)
(* down to the grid of ULP, gain_to_db to whole octaves, with one octave    *)
(* taken as 6 dB (20 log10 2 = 6.02), and db_to_gain to a power of two.     *)
(* gain_to_db(0), minus infinity in f32, is the level one octave below the  *)
(* grid.                                                                    *)

COMP_FRAME_SIZE == 3
MAX_LOOKAHEAD_SAMPLES == 8
DETECT_WINDOW == 21

\* filters per band-splitter chain (BAND_SPLITTER_FILTER_ORDER / 2 = 8 in the
\* source; the mid chain is twice as long), scaled as well
BAND_SPLITTER_FILTER_CHAIN_LENGTH == 2
SAB_SIZE == 16
SAMPLE_RATE == 44100

\* the grid of sample values: 2^-17
ULP == Rat(1, 131072)

FloorInt(a) == a[1] \div a[2]

RGt(a, b) == RLt(b, a)

\* the largest n with n * n <= m, searched between lo and hi
RECURSIVE ISqrtIn(_, _, _)
ISqrtIn(m, lo, hi) ==
  IF lo >= hi THEN lo
  ELSE LET mid == (lo + hi + 1) \div 2
       IN  IF mid * mid <= m THEN ISqrtIn(m, mid, hi) ELSE ISqrtIn(m, lo, mid - 1)

ISqrt(m) == ISqrtIn(m, 0, 46340)

\* f32::sqrt of a value given in ULP^2, rounded down to the grid
sqrt(a_ulp2) == RMul(ULP, R(ISqrt(FloorInt(a_ulp2))))

\* dsp::gain_to_db: 20 log10(x)
gain_to_db(x) ==
  IF RLe(x, Zero) THEN R(6 * (Log2Floor(ULP) - 1)) ELSE R(6 * Log2Floor(x))

\* dsp::db_to_gain: 10^(db / 20)
db_to_gain(db) == Pow2(FloorInt(RDiv(db, R(6))))

\* BiquadFilter: coefficients and the two-sample histories x and y
BiquadFilter(b0, b1, b2, a1, a2) ==
  [b0_over_a0 |-> b0, b1_over_a0 |-> b1, b2_over_a0 |-> b2,
   a1_over_a0 |-> a1, a2_over_a0 |-> a2,
   x |-> <<Zero, Zero>>, y |-> <<Zero, Zero>>]

\* BiquadFilter::apply: the filter after the sample, and its output
BiquadFilter_apply(f, input) ==
  LET output ==
        RSub(RSub(RAdd(RAdd(RMul(f.b0_over_a0, input), RMul(f.b1_over_a0, f.x[1])),
                       RMul(f.b2_over_a0, f.x[2])),
                  RMul(f.a1_over_a0, f.y[1])),
             RMul(f.a2_over_a0, f.y[2]))
  IN  [filter |-> [f EXCEPT !.x = <<input, f.x[1]>>, !.y = <<output, f.y[1]>>],
       output |-> output]

\* one filter of a chain applied to a whole frame, sample by sample
RECURSIVE filter_frame(_, _, _)
filter_frame(f, filtered, i) ==
  IF i > Len(filtered) THEN [filter |-> f, filtered |-> filtered]
  ELSE WithValue(BiquadFilter_apply(f, filtered[i]),
                 LAMBDA r : filter_frame(r.filter, [filtered EXCEPT ![i] = r.output], i + 1))

\* the filters k.. of a chain applied in turn
RECURSIVE filter_chain(_, _, _)
filter_chain(chain, filtered, k) ==
  IF k > Len(chain) THEN [chain |-> chain, filtered |-> filtered]
  ELSE WithValue(filter_frame(chain[k], filtered, 1),
                 LAMBDA r : filter_chain([chain EXCEPT ![k] = r.filter], r.filtered, k + 1))

\* filtered[i..] * gain pushed into the ring
RECURSIVE set_all(_, _, _, _)
set_all(buf, filtered, gain, i) ==
  IF i > Len(filtered) THEN buf
  ELSE set_all(CB_set(buf, RMul(filtered[i], gain)), filtered, gain, i + 1)

\* apply_filter_chain_full: the chain and the ring after the frame
apply_filter_chain_full(chain, input_buf, output_lookahead_buf, gain) ==
  WithValue(filter_chain(chain, input_buf, 1),
            LAMBDA r : [chain |-> r.chain,
                        buf |-> set_all(output_lookahead_buf, r.filtered, gain, 1)])

\* a window that runs forward from the slot
window_ix_Forward(lookahead_samples, sample_ix_in_frame, j) == sample_ix_in_frame + j

\* the window of detect_level_*: offset of its j-th sample
window_ix(lookahead_samples, sample_ix_in_frame, j) ==
  -lookahead_samples - COMP_FRAME_SIZE + sample_ix_in_frame + j

\* the largest |sample| of the window samples lo..hi-1
RECURSIVE peak_of(_, _, _, _, _)
peak_of(buf, lookahead_samples, sample_ix_in_frame, lo, hi) ==
  IF hi - lo = 1
  THEN RAbs(CB_get(buf, window_ix(lookahead_samples, sample_ix_in_frame, lo)))
  ELSE WithValue(
         <<peak_of(buf, lookahead_samples, sample_ix_in_frame, lo, (lo + hi) \div 2),
           peak_of(buf, lookahead_samples, sample_ix_in_frame, (lo + hi) \div 2, hi)>>,
         LAMBDA m : IF RGt(m[2], m[1]) THEN m[2] ELSE m[1])

detect_level_peak(buf, lookahead_samples, sample_ix_in_frame, old_max) ==
  peak_of(buf, lookahead_samples, sample_ix_in_frame, 0, lookahead_samples)

\* the sum of the squares of the window samples lo..hi-1, in ULP^2
RECURSIVE sum_squares(_, _, _, _, _)
sum_squares(buf, lookahead_samples, sample_ix_in_frame, lo, hi) ==
  IF hi - lo = 1
  THEN WithValue(
         RDiv(CB_get(buf, window_ix(lookahead_samples, sample_ix_in_frame, lo)), ULP),
         LAMBDA sample : RMul(sample, sample))
  ELSE WithValue(
         <<sum_squares(buf, lookahead_samples, sample_ix_in_frame, lo, (lo + hi) \div 2),
           sum_squares(buf, lookahead_samples, sample_ix_in_frame, (lo + hi) \div 2, hi)>>,
         LAMBDA m : RAdd(m[1], m[2]))

detect_level_rms(buf, lookahead_samples, sample_ix_in_frame) ==
  WithValue(sum_squares(buf, lookahead_samples, sample_ix_in_frame, 0, lookahead_samples),
            LAMBDA sum : sqrt(RDiv(sum, R(lookahead_samples))))

compute_attack_coefficient(attack_time_ms) ==
  LET attack_time_s == RMul(attack_time_ms, Rat(1, 1000))
      attack_time_samples == RMul(attack_time_s, R(SAMPLE_RATE))
  IN  RSub(One, RDiv(One, attack_time_samples))

compute_release_coefficient(release_time_ms) ==
  LET release_time_s == RMul(release_time_ms, Rat(1, 1000))
      release_time_samples == RMul(release_time_s, R(SAMPLE_RATE))
  IN  RDiv(One, release_time_samples)

\* #[derive(Default)] struct Compressor
Compressor_default ==
  [bottom_envelope |-> Zero, top_envelope |-> Zero, last_detected_level_linear |-> Zero,
   last_output_level_db |-> Zero, last_applied_gain |-> Zero]

\* the ring offset Compressor::apply reads for slot i, lookahead ignored
read_offset_NoLookahead(lookahead_samples, i) == -COMP_FRAME_SIZE + i

\* the ring offset Compressor::apply reads for slot i
read_offset(lookahead_samples, i) == -lookahead_samples - COMP_FRAME_SIZE + i

\* a silence test that lets every sample through to level detection
silence_gated_Never(input) == FALSE

\* the silence test of Compressor::apply
silence_gated(input) == RLt(input, Rat(1, 10000))

\* one step of an envelope follower
follow(coefficient, envelope, level) ==
  RAdd(RMul(coefficient, envelope), RMul(RSub(One, coefficient), level))

\* what one slot of the frame did
SlotTrace(input, path, st, added) ==
  [input |-> input, path |-> path, detected_level_db |-> st.detected_level_db,
   top_envelope |-> st.top_envelope, bottom_envelope |-> st.bottom_envelope,
   target_volume_db |-> st.target_volume_db, gain |-> st.gain, added |-> added]

\* the slot is done: `added` goes into output_buf[i]
slot_done(st, i, input, path, added) ==
  [st EXCEPT !.output_buf[i + 1] = RAdd(@, added),
             !.trace = Append(@, SlotTrace(input, path, st, added))]

\* a gain curve that looks at the bottom threshold first
gain_curve_BottomFirst(st, bottom_threshold_db, top_threshold_db, bottom_ratio, top_ratio) ==
  IF RLt(st.bottom_envelope, bottom_threshold_db)
  THEN LET diff_db == RSub(bottom_threshold_db, st.bottom_envelope)
           target_volume_db == RSub(bottom_threshold_db, RMul(diff_db, bottom_ratio))
       IN  [st EXCEPT !.target_volume_db = target_volume_db,
                      !.gain = db_to_gain(RSub(target_volume_db, st.detected_level_db))]
  ELSE IF RGt(st.top_envelope, top_threshold_db)
  THEN LET target_volume_db ==
             RAdd(top_threshold_db,
                  RDiv(RSub(st.top_envelope, top_threshold_db), top_ratio))
       IN  [st EXCEPT !.target_volume_db = target_volume_db,
                      !.gain = db_to_gain(RSub(target_volume_db, st.detected_level_db))]
  ELSE [st EXCEPT !.target_volume_db = st.top_envelope, !.gain = One]

\* the gain curve of Compressor::apply, from the envelopes
gain_curve(st, bottom_threshold_db, top_threshold_db, bottom_ratio, top_ratio) ==
  IF RGt(st.top_envelope, top_threshold_db)
  THEN LET target_volume_db ==
             RAdd(top_threshold_db,
                  RDiv(RSub(st.top_envelope, top_threshold_db), top_ratio))
       IN  [st EXCEPT !.target_volume_db = target_volume_db,
                      !.gain = db_to_gain(RSub(target_volume_db, st.detected_level_db))]
  ELSE IF RLt(st.bottom_envelope, bottom_threshold_db)
  THEN LET diff_db == RSub(bottom_threshold_db, st.bottom_envelope)
           target_volume_db == RSub(bottom_threshold_db, RMul(diff_db, bottom_ratio))
       IN  [st EXCEPT !.target_volume_db = target_volume_db,
                      !.gain = db_to_gain(RSub(target_volume_db, st.detected_level_db))]
  ELSE [st EXCEPT !.target_volume_db = st.top_envelope, !.gain = One]

\* level detection and the envelopes, for a sample that passed the silence test
detect_and_follow(st, i, input_buf, attack_coefficient, release_coefficient, sensing_method) ==
  WithValue(IF sensing_method = "Peak"
            THEN detect_level_peak(input_buf, DETECT_WINDOW, i, st.detected_level_linear)
            ELSE detect_level_rms(input_buf, DETECT_WINDOW, i),
    LAMBDA lin : WithValue(gain_to_db(lin),
      LAMBDA db :
        [st EXCEPT
           !.detected_level_linear = lin,
           !.detected_level_db = db,
           !.top_envelope =
              IF RGt(db, st.top_envelope)
              THEN follow(attack_coefficient, st.top_envelope, db)
              ELSE follow(release_coefficient, st.top_envelope, db),
           !.bottom_envelope =
              IF RLt(db, st.bottom_envelope)
              THEN follow(attack_coefficient, st.bottom_envelope, db)
              ELSE follow(release_coefficient, st.bottom_envelope, db)]))

\* the body of the loop of Compressor::apply for slot i (makeup_gain is 1)
apply_slot(st, i, input_buf, lookahead_samples, attack_coefficient, release_coefficient, bottom_threshold_db, top_threshold_db, bottom_ratio, top_ratio, sensing_method) ==
  WithValue(CB_get(input_buf, read_offset(lookahead_samples, i)),
    LAMBDA input :
      IF silence_gated(input)
      THEN slot_done(st, i, input, "silence", input)
      ELSE WithValue(detect_and_follow(st, i, input_buf, attack_coefficient,
                                       release_coefficient, sensing_method),
             LAMBDA d :
               IF RLt(d.detected_level_db, R(-60))
               THEN slot_done([d EXCEPT !.target_volume_db = d.detected_level_db],
                              i, input, "level_gate", input)
               ELSE WithValue(gain_curve(d, bottom_threshold_db, top_threshold_db,
                                         bottom_ratio, top_ratio),
                      LAMBDA g : slot_done(g, i, input, "curve",
                                           RMul(RMul(input, g.gain), One)))))

RECURSIVE apply_slots(_, _, _, _, _, _, _, _, _, _, _)
apply_slots(st, i, input_buf, lookahead_samples, attack_coefficient, release_coefficient, bottom_threshold_db, top_threshold_db, bottom_ratio, top_ratio, sensing_method) ==
  IF i >= COMP_FRAME_SIZE THEN st
  ELSE WithValue(apply_slot(st, i, input_buf, lookahead_samples, attack_coefficient,
                            release_coefficient, bottom_threshold_db, top_threshold_db,
                            bottom_ratio, top_ratio, sensing_method),
         LAMBDA n : apply_slots(n, i + 1, input_buf, lookahead_samples,
                                attack_coefficient, release_coefficient,
                                bottom_threshold_db, top_threshold_db, bottom_ratio,
                                top_ratio, sensing_method))

\* Compressor::apply: the compressor and output_buf after the frame, the value
\* returned, and what each slot did
Compressor_apply(self, input_buf, lookahead_samples, output_buf, attack_ms, release_ms, bottom_threshold_db, top_threshold_db, bottom_ratio, top_ratio, knee, sensing_method) ==
  WithValue(
    apply_slots([bottom_envelope |-> self.bottom_envelope,
                 top_envelope |-> self.top_envelope,
                 detected_level_db |-> self.last_output_level_db,
                 detected_level_linear |-> self.last_detected_level_linear,
                 target_volume_db |-> self.last_output_level_db,
                 gain |-> One,
                 output_buf |-> output_buf,
                 trace |-> <<>>],
                0, input_buf, lookahead_samples,
                compute_attack_coefficient(attack_ms),
                compute_release_coefficient(release_ms),
                bottom_threshold_db, top_threshold_db, bottom_ratio, top_ratio,
                sensing_method),
    LAMBDA st :
      [self |-> [bottom_envelope |-> st.bottom_envelope,
                 top_envelope |-> st.top_envelope,
                 last_detected_level_linear |-> st.detected_level_linear,
                 last_output_level_db |-> st.target_volume_db,
                 last_applied_gain |-> st.gain],
       output_buf |-> st.output_buf,
       ret |-> st.detected_level_db,
       trace |-> st.trace])

\* a frame of COMP_FRAME_SIZE samples
ZeroFrame == [i \in 1..COMP_FRAME_SIZE |-> Zero]

\* Coefficients.  set_coefficients derives them with sin, cos and powf; the
\* model gives each chain exactly representable stand-ins: the low chain
\* passes the frame through, the first mid filter inverts it, the first high
\* filter delays it by one sample.
PassThrough == BiquadFilter(One, Zero, Zero, Zero, Zero)
Invert == BiquadFilter(R(-1), Zero, Zero, Zero, Zero)
DelayOne == BiquadFilter(Zero, One, Zero, Zero, Zero)

Chain(first, n) == [k \in 1..n |-> IF k = 1 THEN first ELSE PassThrough]

\* impl Default for MultibandCompressor
MultibandCompressor_default ==
  [sensing_method |-> "Peak",
   input_buffer |-> ZeroFrame,
   low_band_lookahead_buffer |-> CircularBuffer_new(MAX_LOOKAHEAD_SAMPLES),
   mid_band_lookahead_buffer |-> CircularBuffer_new(MAX_LOOKAHEAD_SAMPLES),
   high_band_lookahead_buffer |-> CircularBuffer_new(MAX_LOOKAHEAD_SAMPLES),
   low_band_filter_chain |-> Chain(PassThrough, BAND_SPLITTER_FILTER_CHAIN_LENGTH),
   mid_band_filter_chain |-> Chain(Invert, BAND_SPLITTER_FILTER_CHAIN_LENGTH * 2),
   high_band_filter_chain |-> Chain(DelayOne, BAND_SPLITTER_FILTER_CHAIN_LENGTH),
   low_band_compressor |-> Compressor_default,
   mid_band_compressor |-> Compressor_default,
   high_band_compressor |-> Compressor_default,
   output_buffer |-> ZeroFrame,
   sab |-> [i \in 0..(SAB_SIZE - 1) |-> Zero]]

\* MultibandCompressor::apply_bandsplitting
apply_bandsplitting(self, low_band_gain, mid_band_gain, high_band_gain) ==
  WithValue(
    <<apply_filter_chain_full(self.low_band_filter_chain, self.input_buffer,
                              self.low_band_lookahead_buffer, low_band_gain),
      apply_filter_chain_full(self.mid_band_filter_chain, self.input_buffer,
                              self.mid_band_lookahead_buffer, mid_band_gain),
      apply_filter_chain_full(self.high_band_filter_chain, self.input_buffer,
                              self.high_band_lookahead_buffer, high_band_gain)>>,
    LAMBDA r :
      [self EXCEPT !.low_band_filter_chain = r[1].chain,
                   !.low_band_lookahead_buffer = r[1].buf,
                   !.mid_band_filter_chain = r[2].chain,
                   !.mid_band_lookahead_buffer = r[2].buf,
                   !.high_band_filter_chain = r[3].chain,
                   !.high_band_lookahead_buffer = r[3].buf])

Scaled(frame, gain) == [i \in 1..COMP_FRAME_SIZE |-> RMul(frame[i], gain)]

\* an apply() that leaves output_buffer as it was before the compressors run
output_cleared_Kept(output_buffer) == output_buffer

\* self.output_buffer.fill(0.)
output_cleared(output_buffer) == [i \in 1..COMP_FRAME_SIZE |-> Zero]

\* a local sensing_method taken from the struct field
sensing_used_Field(self) == self.sensing_method

\* let sensing_method = SensingMethod::RMS
sensing_used(self) == "RMS"

\* telemetry grouped by band (4 * b + k) instead of by quantity
publish_ByBand(sab, b, detected_level, c) ==
  [sab EXCEPT ![4 * b] = detected_level, ![4 * b + 1] = c.bottom_envelope,
              ![4 * b + 2] = c.last_output_level_db, ![4 * b + 3] = c.last_applied_gain]

\* the four telemetry writes after band b (0 low, 1 mid, 2 high)
publish(sab, b, detected_level, c) ==
  [sab EXCEPT ![b] = detected_level, ![3 + b] = c.bottom_envelope,
              ![6 + b] = c.last_output_level_db, ![9 + b] = c.last_applied_gain]

\* MultibandCompressor::apply with the parameters p: the compressor after the
\* call, and for each band in the order compressed what Compressor::apply
\* was given and what it gave back
MultibandCompressor_apply(self, p) ==
  WithValue(
    apply_bandsplitting(
      IF p.pre_gain # One
      THEN [self EXCEPT !.input_buffer = Scaled(self.input_buffer, p.pre_gain)]
      ELSE self,
      p.low_band_gain, p.mid_band_gain, p.high_band_gain),
    LAMBDA s1 : WithValue(
      Compressor_apply(s1.low_band_compressor, s1.low_band_lookahead_buffer,
                       p.lookahead_samples, output_cleared(s1.output_buffer),
                       p.low_band_attack_ms, p.low_band_release_ms,
                       p.low_band_bottom_threshold_db, p.low_band_top_threshold_db,
                       p.bottom_ratio, p.top_ratio, p.knee, sensing_used(s1)),
      LAMBDA low : WithValue(
        Compressor_apply(s1.mid_band_compressor, s1.mid_band_lookahead_buffer,
                         p.lookahead_samples, low.output_buf,
                         p.mid_band_attack_ms, p.mid_band_release_ms,
                         p.mid_band_bottom_threshold_db, p.mid_band_top_threshold_db,
                         p.bottom_ratio, p.top_ratio, p.knee, sensing_used(s1)),
        LAMBDA mid : WithValue(
          Compressor_apply(s1.high_band_compressor, s1.high_band_lookahead_buffer,
                           p.lookahead_samples, mid.output_buf,
                           p.high_band_attack_ms, p.high_band_release_ms,
                           p.high_band_bottom_threshold_db, p.high_band_top_threshold_db,
                           p.bottom_ratio, p.top_ratio, p.knee, sensing_used(s1)),
          LAMBDA high :
            [self |->
               [s1 EXCEPT
                  !.low_band_compressor = low.self,
                  !.mid_band_compressor = mid.self,
                  !.high_band_compressor = high.self,
                  !.sab = publish(publish(publish(s1.sab, 0, low.ret, low.self),
                                          1, mid.ret, mid.self),
                                  2, high.ret, high.self),
                  !.output_buffer = IF p.post_gain # One
                                    THEN Scaled(high.output_buf, p.post_gain)
                                    ELSE high.output_buf],
             bands |->
               <<[band |-> "low", given |-> output_cleared(s1.output_buffer),
                  ret |-> low.ret, trace |-> low.trace, left |-> low.output_buf],
                 [band |-> "mid", given |-> low.output_buf,
                  ret |-> mid.ret, trace |-> mid.trace, left |-> mid.output_buf],
                 [band |-> "high", given |-> mid.output_buf,
                  ret |-> high.ret, trace |-> high.trace, left |-> high.output_buf]>>]))))

-----------------------------------------------------------------------------
(* Several Adsr instances and their table handles.  `rendered` is an        *)
(* Rc<[f32; N]>: cloning an Adsr copies the handle, not the table.  The     *)
(* allocations are tables[1], tables[2]; handles[k] is the allocation       *)
(* instance k points to.                                                    *)

\* #[derive(Clone)] on Adsr: the clone of instance `from` shares its handle
Adsr_clone(hs, from, to) == [hs EXCEPT ![to] = hs[from]]

\* a copy-on-write access (Rc::make_mut): a shared table is first copied to a
\* fresh allocation that only the writer points to
Rc_make_mut(hs, k) ==
  IF \E j \in DOMAIN hs : j # k /\ hs[j] = hs[k]
  THEN [hs EXCEPT ![k] = CHOOSE h \in DOMAIN hs : h # hs[k]]
  ELSE hs

\* Rc::get_mut_unchecked(&mut self.rendered): the handles after the access;
\* the table behind handles[k] is written in place, whoever else points to it
Rc_get_mut_unchecked(hs, k) == hs

\* Adsr::set_steps
set_steps(a, new_steps) == [a EXCEPT !.steps = new_steps]

-----------------------------------------------------------------------------
(* MoogFilter (wavetable/src/fm/effects/moog.rs): a four-stage ladder, run   *)
(* twice per sample (2x oversampling).  f32 values are kept on a grid of     *)
(* MOOG_ULP: every division and every tanh rounds to the grid, standing for  *)
(* f32 rounding.  tanh is fastapprox's approximation in the source; here     *)
(* it is the rational approximation x(27 + x^2)/(27 + 9x^2), saturating at   *)
(* |x| >= 3, evaluated on |x| rounded down to 1/64.                          *)

\* samples per frame of the FM synth (128 in the source)
FM_FRAME_SIZE == 3

MOOG_ULP == Rat(1, 1024)

\* a rounded to the nearest point of the grid
Grid(a) ==
  LET g == GCD(a[2], MOOG_ULP[2])
  IN  Rat((2 * a[1] * (MOOG_ULP[2] \div g) + (a[2] \div g)) \div (2 * (a[2] \div g)),
          MOOG_ULP[2])

\* Thermal voltage
VT == Rat(312, 1000)

PI == Rat(355, 113)

\* dsp::clamp(min, max, val)
clamp(min, max, val) == IF RLt(val, min) THEN min ELSE IF RGt(val, max) THEN max ELSE val

\* tanh of x >= 0
tanh_of_magnitude(x) ==
  LET m == FloorInt(RMul(x, R(64)))
  IN  IF m >= 192 THEN One
      ELSE Rat((16 * m * (27 * 4096 + m * m)) \div (27 * 4096 + 9 * m * m), MOOG_ULP[2])

tanh(x) ==
  IF x[1] < 0 THEN RSub(Zero, tanh_of_magnitude(RAbs(x))) ELSE tanh_of_magnitude(x)

MoogFilter_new == [V |-> <<Zero, Zero, Zero, Zero>>,
                   dV |-> <<Zero, Zero, Zero, Zero>>,
                   tV |-> <<Zero, Zero, Zero, Zero>>,
                   last_sample |-> Zero]

\* x = (PI * cutoff) / (SAMPLE_RATE * 2)
ladder_x(cutoff) == RDiv(RMul(PI, cutoff), R(SAMPLE_RATE * 2))

\* (1 - x) / (1 + x) for x = n/d is (d - n)/(d + n); both are cut to 15 bits
\* before the quotient is rounded to the grid
one_minus_over_one_plus(x) ==
  LET k == 1 + (x[2] \div 16384)
  IN  Grid(Rat((x[2] - x[1]) \div k, (x[2] + x[1]) \div k))

\* g = 4 * PI * VT * cutoff * (1 - x) / (1 + x), the product 4 * PI * VT *
\* cutoff and g rounded down to integers
ladder_g(cutoff) ==
  R(FloorInt(RMul(R(FloorInt(RMul(RMul(RMul(R(4), PI), VT), cutoff))),
                  one_minus_over_one_plus(ladder_x(cutoff)))))

\* one ladder stage k (1..4) driven by the derivative dVk:
\* V[k] += (dVk + dV[k]) / (2 * (SAMPLE_RATE * 2)); dV[k] = dVk;
\* tV[k] = tanh(V[k] / (2 * VT))
ladder_stage(self, k, dVk) ==
  WithValue(
    RAdd(self.V[k], Grid(RDiv(RAdd(dVk, self.dV[k]), R(2 * (SAMPLE_RATE * 2))))),
    LAMBDA Vk :
      [self EXCEPT !.V[k] = Vk,
                   !.dV[k] = dVk,
                   !.tV[k] = tanh(Grid(RDiv(Vk, RMul(R(2), VT))))])

\* one pass of the oversampling loop body over the four stages
ladder(self, cutoff_in, resonance_in, drive, sample) ==
  LET cutoff == clamp(One, R(22100), cutoff_in)
      resonance == clamp(Zero, R(20), resonance_in)
      g == ladder_g(cutoff)
  IN  WithValue(
        ladder_stage(self, 1,
          RMul(RSub(Zero, g),
               RAdd(tanh(Grid(RDiv(RAdd(RMul(drive, sample), RMul(resonance, self.V[4])),
                                   RMul(R(2), VT)))),
                    self.tV[1]))),
        LAMBDA s1 : WithValue(
          ladder_stage(s1, 2, RMul(g, RSub(s1.tV[1], s1.tV[2]))),
          LAMBDA s2 : WithValue(
            ladder_stage(s2, 3, RMul(g, RSub(s2.tV[2], s2.tV[3]))),
            LAMBDA s3 :
              ladder_stage(s3, 4, RMul(g, RSub(s3.tV[3], s3.tV[4]))))))

\* the 2x oversampling loop: the midpoint of last_sample and sample, then
\* sample; the output is the mean of V[3] after the two passes
oversample(self, cutoff, resonance, drive, last_sample, sample) ==
  WithValue(
    ladder(self, cutoff, resonance, drive, mix(Rat(1, 2), last_sample, sample)),
    LAMBDA j0 : WithValue(
      ladder(j0, cutoff, resonance, drive, sample),
      LAMBDA j1 :
        [self |-> j1, out |-> RDiv(RAdd(j0.V[4], j1.V[4]), R(2))]))

\* Effect::apply: rendered_params = <<cutoff, resonance, drive>>
MoogFilter_apply(self, rendered_params, sample) ==
  WithValue(
    oversample(self, rendered_params[1], rendered_params[2], rendered_params[3],
               self.last_sample, sample),
    LAMBDA r :
      [self |-> [r.self EXCEPT !.last_sample = sample], out |-> r.out])

\* the loop of apply_all from 0-based index i on; samples is overwritten in
\* place, so samples[i - 1] is read after it was written
RECURSIVE apply_all_from(_, _, _, _, _)
apply_all_from(self, rendered_params, samples, last_sample_in, i) ==
  IF i >= Len(samples)
  THEN [self |-> [self EXCEPT !.last_sample = last_sample_in], samples |-> samples]
  ELSE LET last_sample == IF i > 0 THEN samples[i] ELSE last_sample_in
       IN  WithValue(
             oversample(self, rendered_params[1][i + 1], rendered_params[2][i + 1],
                        rendered_params[3][i + 1], last_sample, samples[i + 1]),
             LAMBDA r :
               apply_all_from(r.self, rendered_params,
                              [samples EXCEPT ![i + 1] = r.out], last_sample, i + 1))

\* Effect::apply_all: rendered_params = <<cutoffs, resonances, drives>>
MoogFilter_apply_all(self, rendered_params, samples) ==
  apply_all_from(self, rendered_params, samples, self.last_sample, 0)

-----------------------------------------------------------------------------
(* BiquadFilter coefficient synthesis (dsp/src/filters/biquad.rs).  sin and  *)
(* cos are Bhaskara's rational approximation sin(pi t) = 16 t (1 - t) /      *)
(* (5 - 4 t (1 - t)) on 0 <= t <= 1; powf is exact at whole exponents and    *)
(* linear between them; square roots and the five normalized coefficients    *)
(* are rounded to a grid of BQ_ULP, standing for f32 rounding.               *)

BQ_ULP == Rat(1, 64)

\* dsp::NYQUIST
NYQUIST == SAMPLE_RATE \div 2

FilterModes ==
  {"Lowpass", "Highpass", "Bandpass", "Notch", "Peak", "Lowshelf", "Highshelf"}

\* sin(pi * t), 0 <= t <= 1
sin_pi(t) ==
  LET u == RMul(t, RSub(One, t))
  IN  RDiv(RMul(R(16), u), RSub(R(5), RMul(R(4), u)))

\* cos(pi * t), 0 <= t <= 1
cos_pi(t) ==
  IF RLe(t, Rat(1, 2)) THEN sin_pi(RSub(Rat(1, 2), t))
  ELSE RSub(Zero, sin_pi(RSub(t, Rat(1, 2))))

\* f32::sin and f32::cos of an angle 0 <= w <= PI
sin(w) == RoundTo(sin_pi(RDiv(w, PI)), BQ_ULP)
cos(w) == RoundTo(cos_pi(RDiv(w, PI)), BQ_ULP)

\* base^k for a whole k
RECURSIVE powi(_, _)
powi(base, k) ==
  IF k = 0 THEN One
  ELSE IF k > 0 THEN RMul(base, powi(base, k - 1))
  ELSE RDiv(powi(base, k + 1), base)

\* f32::powf: base^floor(e), then linear up to base^(floor(e) + 1)
powf(base, exponent) ==
  LET k == FloorInt(exponent)
      f == RSub(exponent, R(k))
  IN  RoundTo(RMul(powi(base, k), RAdd(One, RMul(f, RSub(base, One)))), BQ_ULP)

\* f32::sqrt of a >= 0, rounded down to the grid
f32_sqrt(a) ==
  RMul(BQ_ULP, R(ISqrt(FloorInt(RMul(a, R(BQ_ULP[2] * BQ_ULP[2]))))))

\* #[derive(Default)] for BiquadFilter
BiquadFilter_default == BiquadFilter(Zero, Zero, Zero, Zero, Zero)

\* the unnormalized coefficients <<b0, b1, b2, a0, a1, a2>> of a mode
mode_coefficients(mode, w0, A, aq, aqdb, a_s) ==
  LET c == cos(w0)
      two_as_sqrt_A == RMul(RMul(R(2), a_s), f32_sqrt(A))
      Ap == RAdd(A, One)
      Am == RSub(A, One)
  IN  CASE mode = "Lowpass" ->
             <<RDiv(RSub(One, c), R(2)), RSub(One, c), RDiv(RSub(One, c), R(2)),
               RAdd(One, aqdb), RMul(R(-2), c), RSub(One, aqdb)>>
        [] mode = "Highpass" ->
             <<RDiv(RAdd(One, c), R(2)), RSub(Zero, RAdd(One, c)), RDiv(RAdd(One, c), R(2)),
               RAdd(One, aqdb), RMul(R(-2), c), RSub(One, aqdb)>>
        [] mode = "Bandpass" ->
             <<aq, Zero, RSub(Zero, aq),
               RAdd(One, aq), RMul(R(-2), c), RSub(One, aq)>>
        [] mode = "Notch" ->
             <<One, RMul(R(-2), c), One,
               RAdd(One, aq), RMul(R(-2), c), RSub(One, aq)>>
        [] mode = "Peak" ->
             <<RAdd(One, RMul(aq, A)), RMul(R(-2), c), RSub(One, RMul(aq, A)),
               RAdd(One, RDiv(aq, A)), RMul(R(-2), c), RSub(One, RDiv(aq, A))>>
        [] mode = "Lowshelf" ->
             <<RMul(A, RAdd(RSub(Ap, RMul(Am, c)), two_as_sqrt_A)),
               RMul(RMul(R(2), A), RSub(Am, RMul(Ap, c))),
               RMul(A, RSub(RSub(Ap, RMul(Am, c)), two_as_sqrt_A)),
               RAdd(RAdd(Ap, RMul(Am, c)), two_as_sqrt_A),
               RMul(R(-2), RAdd(Am, RMul(Ap, c))),
               RSub(RAdd(Ap, RMul(Am, c)), two_as_sqrt_A)>>
        [] mode = "Highshelf" ->
             <<RMul(A, RAdd(RAdd(Ap, RMul(Am, c)), two_as_sqrt_A)),
               RMul(RMul(R(-2), A), RAdd(Am, RMul(Ap, c))),
               RMul(A, RSub(RAdd(Ap, RMul(Am, c)), two_as_sqrt_A)),
               RAdd(RSub(Ap, RMul(Am, c)), two_as_sqrt_A),
               RMul(R(2), RSub(Am, RMul(Ap, c))),
               RSub(RSub(Ap, RMul(Am, c)), two_as_sqrt_A)>>

\* the five coefficients normalized by a0 and rounded
normalized(k) ==
  [j \in 1..5 |->
     RoundTo(RDiv(RoundTo(k[IF j <= 3 THEN j ELSE j + 1], BQ_ULP), RoundTo(k[4], BQ_ULP)), BQ_ULP)]

\* the synthesis of set_coefficients: <<b0, b1, b2, a1, a2>>, each over a0
synthesize(mode, q, detune, freq, gain) ==
  LET computed_frequency == RMul(freq, powf(R(2), RDiv(detune, R(1200))))
      normalized_freq == RDiv(computed_frequency, R(NYQUIST))
      w0 == RMul(PI, normalized_freq)
      A == powf(R(10), RDiv(gain, R(40)))
      aq == RDiv(sin(w0), RMul(R(2), q))
      aqdb == RDiv(sin(w0), RMul(R(2), powf(R(10), RDiv(q, R(20)))))
      S == One
      a_s == RMul(RDiv(sin(w0), R(2)),
                  f32_sqrt(RAdd(RMul(RAdd(A, RDiv(One, A)), RSub(RDiv(One, S), One)), R(2))))
  IN  normalized(mode_coefficients(mode, w0, A, aq, aqdb, a_s))

\* a set_coefficients that also clears the histories, as a new filter has them
set_coefficients_ResetHistory(self, mode, q, detune, freq, gain) ==
  LET k == synthesize(mode, q, detune, freq, gain)
  IN  BiquadFilter(k[1], k[2], k[3], k[4], k[5])

\* BiquadFilter::set_coefficients
set_coefficients(self, mode, q, detune, freq, gain) ==
  LET k == synthesize(mode, q, detune, freq, gain)
  IN  [self EXCEPT !.b0_over_a0 = k[1], !.b1_over_a0 = k[2], !.b2_over_a0 = k[3],
                   !.a1_over_a0 = k[4], !.a2_over_a0 = k[5]]

\* BiquadFilter::new
BiquadFilter_new(mode, q, detune, freq, gain) ==
  set_coefficients(BiquadFilter_default, mode, q, detune, freq, gain)

\* dsp::linear_to_db_checked: 20 log10(x)
linear_to_db_checked(x) == gain_to_db(x)

\* the largest filter order asked for
MaxOrder == 16

\* the Q factor, in dB, of stage i of a cascade of the given order
q_factor(order, i) ==
  linear_to_db_checked(
    RDiv(One, RMul(R(2), cos(RAdd(RDiv(RDiv(PI, R(order)), R(2)),
                                  RMul(RDiv(PI, R(order)), R(i)))))))

\* compute_higher_order_biquad_q_factors with only the zero order refused
compute_higher_order_biquad_q_factors_OddAllowed(order) ==
  IF order <= 0 THEN [panicked |-> TRUE, values |-> <<>>]
  ELSE [panicked |-> FALSE,
        values |-> [k \in 1..(order \div 2) |-> q_factor(order, k - 1)]]

\* compute_higher_order_biquad_q_factors: the Vec returned, or the panic
compute_higher_order_biquad_q_factors(order) ==
  IF order % 2 /= 0 \/ order <= 0 THEN [panicked |-> TRUE, values |-> <<>>]
  ELSE [panicked |-> FALSE,
        values |-> [k \in 1..(order \div 2) |-> q_factor(order, k - 1)]]

\* BAND_SPLITTER_FILTER_ORDER of the compressor
BAND_SPLITTER_FILTER_ORDER == 2 * BAND_SPLITTER_FILTER_CHAIN_LENGTH

(* BiquadFilterBank2D<BANK_COUNT, BANK_LENGTH>: nine planes indexed          *)
(* [depth][bank], depth in 0..BANK_LENGTH-1 and bank in 0..BANK_COUNT-1.     *)
(* The exported bank is BiquadFilterBank2D<22, 16>; here six banks (one      *)
(* chunk of four lanes and a remainder of two) of four filters each.         *)

BANK_COUNT == 6
BANK_LENGTH == 4
CHUNK_SIZE == 4

Plane(f(_, _)) == [d \in 0..(BANK_LENGTH - 1) |-> [b \in 0..(BANK_COUNT - 1) |-> f(d, b)]]

\* BiquadFilterBank2D::new
BiquadFilterBank2D_new(filters) ==
  [b0_over_a0 |-> Plane(LAMBDA d, b : filters[d][b].b0_over_a0),
   b1_over_a0 |-> Plane(LAMBDA d, b : filters[d][b].b1_over_a0),
   b2_over_a0 |-> Plane(LAMBDA d, b : filters[d][b].b2_over_a0),
   a1_over_a0 |-> Plane(LAMBDA d, b : filters[d][b].a1_over_a0),
   a2_over_a0 |-> Plane(LAMBDA d, b : filters[d][b].a2_over_a0),
   x0 |-> Plane(LAMBDA d, b : filters[d][b].x[1]),
   x1 |-> Plane(LAMBDA d, b : filters[d][b].x[2]),
   y0 |-> Plane(LAMBDA d, b : filters[d][b].y[1]),
   y1 |-> Plane(LAMBDA d, b : filters[d][b].y[2])]

\* the lanes apply_simd goes through: the whole chunks, then the remainder
chunk_count == BANK_COUNT \div CHUNK_SIZE
remainder == BANK_COUNT % CHUNK_SIZE
simd_lanes ==
  [k \in 1..(chunk_count * CHUNK_SIZE + remainder) |-> k - 1]

\* one lane of apply_simd: the recurrence, rounded as f32 rounds, and the stores
apply_lane(st, depth, band_ix) ==
  LET self == st.self
      ins == st.output[band_ix]
      x0 == self.x0[depth][band_ix]
      x1 == self.x1[depth][band_ix]
      y0 == self.y0[depth][band_ix]
      y1 == self.y1[depth][band_ix]
      outs == RoundTo(
                RSub(RSub(RAdd(RAdd(RMul(self.b0_over_a0[depth][band_ix], ins),
                                    RMul(self.b1_over_a0[depth][band_ix], x0)),
                               RMul(self.b2_over_a0[depth][band_ix], x1)),
                          RMul(self.a1_over_a0[depth][band_ix], y0)),
                     RMul(self.a2_over_a0[depth][band_ix], y1)), BQ_ULP)
  IN  [self |-> [self EXCEPT !.x0[depth][band_ix] = ins, !.x1[depth][band_ix] = x0,
                             !.y0[depth][band_ix] = outs, !.y1[depth][band_ix] = y0],
       output |-> [st.output EXCEPT ![band_ix] = outs],
       panicked |-> FALSE,
       lanes |-> Append(st.lanes, band_ix)]

RECURSIVE apply_lanes(_, _, _)
apply_lanes(st, depth, k) ==
  IF k > Len(simd_lanes) THEN st
  ELSE WithValue(apply_lane(st, depth, simd_lanes[k]),
                 LAMBDA next : apply_lanes(next, depth, k + 1))

\* BiquadFilterBank2D::apply_simd: planes and output after the call, the
\* lanes stored to in order, or the panic of indexing a plane at a depth it
\* does not have
apply_simd(self, output, depth) ==
  IF Len(simd_lanes) > 0 /\ depth >= BANK_LENGTH
  THEN [self |-> self, output |-> output, panicked |-> TRUE, lanes |-> <<>>]
  ELSE apply_lanes([self |-> self, output |-> output, panicked |-> FALSE, lanes |-> <<>>],
                   depth, 1)

\* the depth steps of the exported apply: its literal 22, the bank's BANK_COUNT
APPLY_DEPTH_STEPS == BANK_COUNT

RECURSIVE apply_from(_, _)
apply_from(st, depth) ==
  IF depth >= APPLY_DEPTH_STEPS \/ st.panicked THEN st
  ELSE WithValue(apply_simd(st.banks, st.outputs, depth),
                 LAMBDA r : apply_from([banks |-> r.self, outputs |-> r.output,
                                        panicked |-> r.panicked,
                                        depths |-> Append(st.depths, depth)],
                                       depth + 1))

\* the exported apply: banks and outputs after the call, the depth indices
\* apply_simd was called with, and whether the call panicked
apply(banks, outputs, inputs) ==
  apply_from([banks |-> banks, outputs |-> [b \in DOMAIN outputs |-> inputs[1]],
              panicked |-> FALSE, depths |-> <<>>], 0)

VARIABLES
  cb,           \* the CircularBuffer under check
  written,      \* history: the values passed to set(), most recent first
  cb_call,      \* the last CircularBuffer call: [op, arg, ret, panicked]
  adsr,         \* the Adsr instance
  rendered,     \* the shared rendered table, rendered[i + 1] = the source's rendered[i]
  frame_trace,  \* history: one entry per get_sample of the last render_frame
  crossed,      \* history: gated, and the release point was crossed since gate()
  before_call,  \* history: phase, gate_status and crossed as the last call found them
  panicked,     \* the process was aborted by a failed assertion or index
  adsr_call,    \* the last Adsr call
  insts,        \* two Adsr instances, 1 and 2
  handles,      \* handles[k]: the table allocation instance k's Rc points to
  tables,       \* the table allocations
  sh_call,      \* the last call on either instance
  last_rendered,\* the table the most recent render() produced, and by whom
  sh_panicked,  \* the process was aborted
  mbc,          \* the MultibandCompressor
  comp_call,    \* the last call on it and its parameters
  comp_bands,   \* what the last process_compressor did, band by band
  band_written, \* per band, the samples pushed into its ring, latest first
  frames_done,  \* frames processed so far
  moog,         \* the MoogFilter
  moog_call,    \* the last call on it: [op, rendered_params, samples]
  moog_out,     \* what the last call produced: one sample, or the frame
  moog_calls,   \* calls made so far
  bq_scene,     \* what the program under check uses: "filter", "q_factors" or "bank"
  bq,           \* the BiquadFilter
  bq_call,      \* the last biquad call: [op, before (the histories found), arg, ret]
  bq_applies,   \* BiquadFilter::apply calls made so far
  bq_panicked,  \* the process was aborted by a panic
  bank,         \* the BiquadFilterBank2D
  bank_out,     \* the caller's output array, one sample per bank
  bank_calls    \* apply and apply_simd calls made so far

cb_vars == <<cb, written, cb_call>>
adsr_vars == <<adsr, rendered, frame_trace, crossed, before_call, panicked, adsr_call>>
shared_vars == <<insts, handles, tables, sh_call, last_rendered, sh_panicked>>
comp_vars == <<mbc, comp_call, comp_bands, band_written, frames_done>>
moog_vars == <<moog, moog_call, moog_out, moog_calls>>
biquad_vars == <<bq_scene, bq, bq_call, bq_applies, bq_panicked, bank, bank_out, bank_calls>>
vars == <<cb, written, cb_call, adsr, rendered, frame_trace, crossed, before_call,
          panicked, adsr_call, insts, handles, tables, sh_call,
          last_rendered, sh_panicked, mbc, comp_call, comp_bands, band_written,
          frames_done, moog, moog_call, moog_out, moog_calls,
          bq_scene, bq, bq_call, bq_applies, bq_panicked, bank, bank_out, bank_calls>>
\* what the actions of one component leave alone
outside_cb == <<adsr_vars, shared_vars, comp_vars, moog_vars, biquad_vars>>
outside_adsr == <<cb_vars, shared_vars, comp_vars, moog_vars, biquad_vars>>
outside_shared == <<cb_vars, adsr_vars, comp_vars, moog_vars, biquad_vars>>
outside_comp == <<cb_vars, adsr_vars, shared_vars, moog_vars, biquad_vars>>
outside_moog == <<cb_vars, adsr_vars, shared_vars, comp_vars, biquad_vars>>
outside_biquad == <<cb_vars, adsr_vars, shared_vars, comp_vars, moog_vars>>

-----------------------------------------------------------------------------
(* Inputs                                                                   *)

SampleValues == {R(v) : v \in 1..MaxVal}

\* offsets read by get(): 0 down to -(LENGTH-1)
GetOffsets == {-k : k \in 0..(LENGTH - 1)}

\* offsets that break get()'s precondition
PositiveOffsets == 1..(LENGTH - 1)

\* offsets read by read_interpolated(): halves 0, -1/2, -1, ... whose
\* neighbour trunc(f) - 1 is still an offset of GetOffsets
InterpOffsets == {Rat(-k, 2) : k \in 0..(2 * (LENGTH - 2) + 1)}

\* steps of scenario E1: a linear ramp from 0 to 1
StepsRamp == <<AdsrStep(Zero, Zero, "Instant"), AdsrStep(One, One, "Linear")>>

\* attack to 1 at 1/4, decay to 1/2 at 1/2, release to 0 at 1
StepsAdsr ==
  <<AdsrStep(Zero, Zero, "Instant"), AdsrStep(Rat(1, 4), One, "Linear"),
    AdsrStep(Rat(1, 2), Rat(1, 2), "Linear"), AdsrStep(One, Zero, "Linear")>>

StepLists == {StepsRamp, StepsAdsr}

LoopPoints == {None, Some(Rat(1, 4))}
ReleasePoints == {Zero, Rat(1, 2), One}
LenSamples == {R(1), R(2), R(128), R(256)}

\* what the uninitialized cur_frame_output may hold
UninitFrames == {Filled(Zero), [i \in 1..FRAME_SIZE |-> R(i % 2)]}

ZeroTable == [i \in 1..RENDERED_BUFFER_SIZE |-> Zero]

BeforeCall(a, c) == [phase |-> a.phase, gate_status |-> a.gate_status, crossed |-> c]

\* the Adsr of InitCB's specification, which never touches it
AdsrIdle == Adsr_new(StepsRamp, None, R(FRAME_SIZE), One, Filled(Zero))

NoCBCall == [op |-> "new", arg |-> Zero, ret |-> Zero, panicked |-> FALSE]

\* the components a specification does not drive stay as constructed
IdleCB ==
  /\ cb = CB_new
  /\ written = <<>>
  /\ cb_call = NoCBCall

IdleAdsr ==
  /\ adsr = AdsrIdle
  /\ rendered = ZeroTable
  /\ frame_trace = <<>>
  /\ crossed = FALSE
  /\ before_call = BeforeCall(AdsrIdle, FALSE)
  /\ panicked = FALSE
  /\ adsr_call = "new"

NoRender == [by |-> 0, table |-> ZeroTable]

IdleShared ==
  /\ insts = [k \in 1..2 |-> AdsrIdle]
  /\ handles = [k \in 1..2 |-> 1]
  /\ tables = [h \in 1..2 |-> ZeroTable]
  /\ sh_call = [op |-> "new", inst |-> 0]
  /\ last_rendered = NoRender
  /\ sh_panicked = FALSE

NoParams == [lookahead_samples |-> 0]

IdleComp ==
  /\ mbc = MultibandCompressor_default
  /\ comp_call = [op |-> "init_compressor", p |-> NoParams]
  /\ comp_bands = <<>>
  /\ band_written = [b \in 1..3 |-> <<>>]
  /\ frames_done = 0

NoMoogCall == [op |-> "new", rendered_params |-> <<>>, samples |-> <<>>]

IdleMoog ==
  /\ moog = MoogFilter_new
  /\ moog_call = NoMoogCall
  /\ moog_out = <<>>
  /\ moog_calls = 0

NoBiquadCall == [op |-> "none", before |-> <<>>, arg |-> <<>>, ret |-> <<>>]

NoBank == BiquadFilterBank2D_new([d \in 0..(BANK_LENGTH - 1) |-> [b \in 0..(BANK_COUNT - 1) |-> BiquadFilter_default]])

BiquadStart ==
  /\ bq = BiquadFilter_default
  /\ bq_call = NoBiquadCall
  /\ bq_applies = 0
  /\ bq_panicked = FALSE
  /\ bank = NoBank
  /\ bank_out = [b \in 0..(BANK_COUNT - 1) |-> Zero]
  /\ bank_calls = 0

IdleBiquad ==
  /\ bq_scene = "none"
  /\ BiquadStart

-----------------------------------------------------------------------------
(* CircularBuffer specification                                             *)

Prepend(v, s) == SubSeq(<<v>> \o s, 1, IF Len(s) + 1 > LENGTH THEN LENGTH ELSE Len(s) + 1)

InitCB ==
  /\ cb = CB_new
  /\ written = <<>>
  /\ cb_call = NoCBCall
  /\ adsr = AdsrIdle
  /\ rendered = ZeroTable
  /\ frame_trace = <<>>
  /\ crossed = FALSE
  /\ before_call = BeforeCall(AdsrIdle, FALSE)
  /\ panicked = FALSE
  /\ adsr_call = "new"
  /\ IdleShared
  /\ IdleComp
  /\ IdleMoog
  /\ IdleBiquad

Set ==
  /\ ~cb_call.panicked
  /\ \E v \in SampleValues :
       /\ cb' = CB_set(cb, v)
       /\ written' = Prepend(v, written)
       /\ cb_call' = [op |-> "set", arg |-> v, ret |-> Zero, panicked |-> FALSE]
  /\ UNCHANGED outside_cb

\* get, in a build with debug assertions or in one without
Get ==
  /\ ~cb_call.panicked
  /\ \E ix \in GetOffsets \cup PositiveOffsets, debug_assertions \in BOOLEAN :
       \E r \in {CB_get_call(cb, ix, debug_assertions)} :
         cb_call' = [op |-> "get", arg |-> R(ix), ret |-> r.ret, panicked |-> r.panicked]
  /\ UNCHANGED <<cb, written>>
  /\ UNCHANGED outside_cb

ReadInterpolated ==
  /\ ~cb_call.panicked
  /\ \E f \in InterpOffsets :
       cb_call' = [op |-> "read_interpolated", arg |-> f,
                   ret |-> CB_read_interpolated(cb, f), panicked |-> FALSE]
  /\ UNCHANGED <<cb, written>>
  /\ UNCHANGED outside_cb

NextCB == Set \/ Get \/ ReadInterpolated

SpecCB == InitCB /\ [][NextCB]_vars

-----------------------------------------------------------------------------
(* Adsr specification: one instance, constructed with any of the            *)
(* configurations above, then driven by render(), gate(), ungate() and      *)
(* render_frame() in any order.  A panic ends the process.                  *)

InitAdsr ==
  /\ \E steps \in StepLists, loop_point \in LoopPoints, len_samples \in LenSamples,
        release_start_phase \in ReleasePoints, uninit \in UninitFrames :
       /\ loop_point.some => RLt(loop_point.val, release_start_phase)
       /\ adsr = Adsr_new(steps, loop_point, len_samples, release_start_phase, uninit)
  /\ rendered = ZeroTable
  /\ frame_trace = <<>>
  /\ crossed = FALSE
  /\ before_call = BeforeCall(adsr, FALSE)
  /\ panicked = FALSE
  /\ adsr_call = "new"
  /\ cb = CB_new
  /\ written = <<>>
  /\ cb_call = NoCBCall
  /\ IdleShared
  /\ IdleComp
  /\ IdleMoog
  /\ IdleBiquad

Render ==
  /\ ~panicked
  /\ rendered' = render(adsr, rendered)
  /\ adsr_call' = "render"
  /\ before_call' = BeforeCall(adsr, crossed)
  /\ UNCHANGED <<adsr, frame_trace, crossed, panicked>>
  /\ UNCHANGED outside_adsr

Gate ==
  /\ ~panicked
  /\ adsr' = gate(adsr)
  /\ crossed' = FALSE
  /\ adsr_call' = "gate"
  /\ before_call' = BeforeCall(adsr, crossed)
  /\ UNCHANGED <<rendered, frame_trace, panicked>>
  /\ UNCHANGED outside_adsr

Ungate ==
  /\ ~panicked
  /\ adsr' = ungate(adsr)
  /\ crossed' = FALSE
  /\ adsr_call' = "ungate"
  /\ before_call' = BeforeCall(adsr, crossed)
  /\ UNCHANGED <<rendered, frame_trace, panicked>>
  /\ UNCHANGED outside_adsr

RenderFrame ==
  /\ ~panicked
  /\ \E r \in {render_frame(adsr, rendered)} :
         /\ adsr' = r.adsr
         /\ frame_trace' = r.trace
         /\ panicked' = r.panicked
         /\ before_call' = BeforeCall(adsr, crossed)
         /\ crossed' = (crossed \/ \E j \in 1..Len(r.trace) :
                                     r.trace[j].rewrap \/ r.trace[j].lock)
  /\ adsr_call' = "render_frame"
  /\ UNCHANGED rendered
  /\ UNCHANGED outside_adsr

NextAdsr == Render \/ Gate \/ Ungate \/ RenderFrame

SpecAdsr == InitAdsr /\ [][NextAdsr]_vars

-----------------------------------------------------------------------------
(* Release specification: an Adsr that is gated or not, released once with  *)
(* ungate() and from then on only rendered, one frame after the other       *)

\* an envelope of 2^30 samples: its per-sample phase step of 2^-30 is below
\* half an ulp of an f32 phase of 1/2
LongEnvelope == R(2 ^ 30)

\* envelope lengths and release points
ReleaseConfigs ==
  ({R(2), R(128), R(256), R(512), R(1024), R(2048)} \X ReleasePoints)
    \cup {<<LongEnvelope, Rat(1, 2)>>}

InitRelease ==
  /\ \E steps \in StepLists, c \in ReleaseConfigs, uninit \in UninitFrames :
       adsr = Adsr_new(steps, None, c[1], c[2], uninit)
  /\ rendered = ZeroTable
  /\ frame_trace = <<>>
  /\ crossed = FALSE
  /\ before_call = BeforeCall(adsr, FALSE)
  /\ panicked = FALSE
  /\ adsr_call = "new"
  /\ IdleCB
  /\ IdleShared
  /\ IdleComp
  /\ IdleMoog
  /\ IdleBiquad

\* gate(), before the release, of the envelopes short enough to be rendered
\* up to their release point
ReleaseGate ==
  /\ adsr_call = "new"
  /\ adsr.len_samples # LongEnvelope
  /\ Gate

\* the one ungate()
ReleaseUngate ==
  /\ adsr_call = "new" \/ adsr.gate_status \in {"Gated", "GatedFrozen"}
  /\ Ungate

NextRelease == ReleaseGate \/ ReleaseUngate \/ RenderFrame

SpecRelease == InitRelease /\ [][NextRelease]_vars

-----------------------------------------------------------------------------
(* Shared-table specification: instance 2 is a clone of instance 1 (one     *)
(* table, two handles).  Each instance is driven by render(), gate(),       *)
(* ungate() and render_frame() in any order.                                *)

SharedAdsr == Adsr_new(StepsRamp, None, R(FRAME_SIZE), One, Filled(Zero))

\* instance 2 is cloned from instance 1 and then given steps of its own
InitShared ==
  /\ insts = [k \in 1..2 |-> IF k = 1 THEN SharedAdsr ELSE set_steps(SharedAdsr, StepsAdsr)]
  /\ handles = Adsr_clone([k \in 1..2 |-> k], 1, 2)
  /\ tables = [h \in 1..2 |-> ZeroTable]
  /\ sh_call = [op |-> "new", inst |-> 0]
  /\ last_rendered = NoRender
  /\ sh_panicked = FALSE
  /\ IdleCB
  /\ IdleAdsr
  /\ IdleComp
  /\ IdleMoog
  /\ IdleBiquad

ShRender(k) ==
  /\ ~sh_panicked
  /\ \E hs \in {Rc_get_mut_unchecked(handles, k)},
        t \in {render(insts[k], tables[handles[k]])} :
       /\ handles' = hs
       /\ tables' = [tables EXCEPT ![hs[k]] = t]
       /\ last_rendered' = [by |-> k, table |-> t]
  /\ sh_call' = [op |-> "render", inst |-> k]
  /\ UNCHANGED <<insts, sh_panicked>>
  /\ UNCHANGED outside_shared

ShGate(k) ==
  /\ ~sh_panicked
  /\ insts' = [insts EXCEPT ![k] = gate(insts[k])]
  /\ sh_call' = [op |-> "gate", inst |-> k]
  /\ UNCHANGED <<handles, tables, last_rendered, sh_panicked>>
  /\ UNCHANGED outside_shared

ShUngate(k) ==
  /\ ~sh_panicked
  /\ insts' = [insts EXCEPT ![k] = ungate(insts[k])]
  /\ sh_call' = [op |-> "ungate", inst |-> k]
  /\ UNCHANGED <<handles, tables, last_rendered, sh_panicked>>
  /\ UNCHANGED outside_shared

ShRenderFrame(k) ==
  /\ ~sh_panicked
  /\ \E r \in {render_frame(insts[k], tables[handles[k]])} :
       /\ insts' = [insts EXCEPT ![k] = r.adsr]
       /\ sh_panicked' = r.panicked
  /\ sh_call' = [op |-> "render_frame", inst |-> k]
  /\ UNCHANGED <<handles, tables, last_rendered>>
  /\ UNCHANGED outside_shared

NextShared ==
  \E k \in 1..2 : ShRender(k) \/ ShGate(k) \/ ShUngate(k) \/ ShRenderFrame(k)

SpecShared == InitShared /\ [][NextShared]_vars

-----------------------------------------------------------------------------
(* Compressor specification: the host writes a frame into input_buffer and  *)
(* calls process_compressor, until the rings have wrapped.                  *)

MaxFrames == (MAX_LOOKAHEAD_SAMPLES \div COMP_FRAME_SIZE) + 1

\* sample values: silence, below and above the silence threshold 1e-4, and a
\* level that passes the -60 dB gate once it fills the window
Tiny == ULP
Quiet == Rat(1, 4096)
Loud == Rat(1, 256)

Sign(i) == IF i % 2 = 1 THEN 1 ELSE -1

InputFrames ==
  { [i \in 1..COMP_FRAME_SIZE |-> RMul(R(Sign(i)), Tiny)],
    [i \in 1..COMP_FRAME_SIZE |-> Quiet],
    [i \in 1..COMP_FRAME_SIZE |-> Loud],
    [i \in 1..COMP_FRAME_SIZE |-> RMul(R(-Sign(i)), Loud)] }

\* attack or release time in ms that lasts n samples
MsOfSamples(n) == Rat(1000 * n, SAMPLE_RATE)

Params(pre_gain, post_gain, band_gains, attack_ms, release_ms, bottom_db, top_db, bottom_ratio, top_ratio, knee, lookahead_samples) ==
  [pre_gain |-> pre_gain, post_gain |-> post_gain,
   low_band_gain |-> band_gains[1], mid_band_gain |-> band_gains[2],
   high_band_gain |-> band_gains[3],
   low_band_attack_ms |-> attack_ms, low_band_release_ms |-> release_ms,
   mid_band_attack_ms |-> attack_ms, mid_band_release_ms |-> release_ms,
   high_band_attack_ms |-> attack_ms, high_band_release_ms |-> release_ms,
   low_band_bottom_threshold_db |-> bottom_db[1],
   mid_band_bottom_threshold_db |-> bottom_db[2],
   high_band_bottom_threshold_db |-> bottom_db[3],
   low_band_top_threshold_db |-> top_db[1],
   mid_band_top_threshold_db |-> top_db[2],
   high_band_top_threshold_db |-> top_db[3],
   bottom_ratio |-> bottom_ratio, top_ratio |-> top_ratio, knee |-> knee,
   lookahead_samples |-> lookahead_samples]

Unity == <<One, One, One>>

\* parameter sets.  The first: unit gains, envelopes of one sample, downward
\* compression on the low band, upward on the mid band, none on the high
\* band.  The second: pre, post and band gains, envelopes of two samples,
\* upward compression on the low band, downward on the mid and high bands,
\* the high band with a bottom threshold above its top threshold.
ParamSets(lookahead_samples) ==
  { Params(One, One, Unity, MsOfSamples(1), MsOfSamples(1),
           <<R(-120), R(-30), R(-120)>>, <<R(-54), R(0), R(0)>>,
           Rat(1, 2), R(2), Zero, lookahead_samples),
    Params(R(2), R(2), <<One, R(2), Rat(1, 2)>>, MsOfSamples(2), MsOfSamples(2),
           <<R(-30), R(-120), R(-30)>>, <<R(0), R(-54), R(-54)>>,
           Rat(1, 2), R(2), Zero, lookahead_samples) }

\* none, one sample, the most that keeps lookahead_samples + COMP_FRAME_SIZE
\* below the ring length, and the most the host may ask for
Lookaheads == {0, 1, MAX_LOOKAHEAD_SAMPLES - COMP_FRAME_SIZE - 1, MAX_LOOKAHEAD_SAMPLES}

\* the last COMP_FRAME_SIZE samples set() put into a ring, latest first
LatestWritten(ring) ==
  [j \in 1..COMP_FRAME_SIZE |->
     ring.buffer[(ring.head + CB_LENGTH(ring) - (j - 1)) % CB_LENGTH(ring)]]

Rings(m) ==
  <<m.low_band_lookahead_buffer, m.mid_band_lookahead_buffer, m.high_band_lookahead_buffer>>

Compressors(m) == <<m.low_band_compressor, m.mid_band_compressor, m.high_band_compressor>>

\* the compressor after the host has processed k frames of digital silence
RECURSIVE AfterSilence(_, _)
AfterSilence(k, p) ==
  IF k = 0 THEN MultibandCompressor_default
  ELSE WithValue(AfterSilence(k - 1, p),
                 LAMBDA m : MultibandCompressor_apply(
                              [m EXCEPT !.input_buffer = ZeroFrame], p).self)

\* frames of silence processed before the first frame of the behaviour: none,
\* or as many as bring the ring heads back to 0 at the first frame
SilentStarts(lookahead_samples) ==
  IF lookahead_samples = MAX_LOOKAHEAD_SAMPLES - COMP_FRAME_SIZE - 1
  THEN {0, MAX_LOOKAHEAD_SAMPLES - 1}
  ELSE {0}

Silence(n) == [j \in 1..n |-> Zero]

InitComp ==
  /\ \E lookahead_samples \in Lookaheads :
       \E k \in SilentStarts(lookahead_samples) :
         /\ comp_call = [op |-> "init_compressor", p |-> [lookahead_samples |-> lookahead_samples]]
         /\ mbc = AfterSilence(k, CHOOSE p \in ParamSets(lookahead_samples) : p.pre_gain = One)
         /\ band_written =
              [b \in 1..3 |->
                 Silence(IF k * COMP_FRAME_SIZE > MAX_LOOKAHEAD_SAMPLES
                         THEN MAX_LOOKAHEAD_SAMPLES ELSE k * COMP_FRAME_SIZE)]
  /\ comp_bands = <<>>
  /\ frames_done = 0
  /\ IdleCB
  /\ IdleAdsr
  /\ IdleShared
  /\ IdleMoog
  /\ IdleBiquad

\* the host fills input_buffer through get_compressor_input_buf_ptr
WriteInput ==
  /\ comp_call.op # "write_input"
  /\ frames_done < MaxFrames
  /\ \E frame \in InputFrames : mbc' = [mbc EXCEPT !.input_buffer = frame]
  /\ comp_call' = [comp_call EXCEPT !.op = "write_input"]
  /\ UNCHANGED <<comp_bands, band_written, frames_done>>
  /\ UNCHANGED outside_comp

\* process_compressor
Process ==
  /\ comp_call.op = "write_input"
  /\ \E p \in ParamSets(comp_call.p.lookahead_samples) :
       \E r \in {MultibandCompressor_apply(mbc, p)} :
         /\ mbc' = r.self
         /\ comp_bands' = r.bands
         /\ comp_call' = [op |-> "process_compressor", p |-> p]
         /\ band_written' =
              [b \in 1..3 |->
                 SubSeq(LatestWritten(Rings(r.self)[b]) \o band_written[b], 1,
                        IF Len(band_written[b]) + COMP_FRAME_SIZE > MAX_LOOKAHEAD_SAMPLES
                        THEN MAX_LOOKAHEAD_SAMPLES
                        ELSE Len(band_written[b]) + COMP_FRAME_SIZE)]
  /\ frames_done' = frames_done + 1
  /\ UNCHANGED outside_comp

NextComp == WriteInput \/ Process

SpecComp == InitComp /\ [][NextComp]_vars

-----------------------------------------------------------------------------
(* MoogFilter specification: the effect chain calls apply_all once per      *)
(* frame, or apply once per sample.                                         *)

MaxMoogCalls == 3

\* frames of input: silence, a constant level, an alternating full-scale one
MoogFrames ==
  { [i \in 1..FM_FRAME_SIZE |-> Zero],
    [i \in 1..FM_FRAME_SIZE |-> Rat(1, 2)],
    [i \in 1..FM_FRAME_SIZE |-> IF i % 2 = 1 THEN One ELSE R(-1)] }

\* rendered parameters <<cutoffs, resonances, drives>>: constant over the
\* frame, or changing per sample and leaving the clamped ranges
MoogParamFrames ==
  { <<[i \in 1..FM_FRAME_SIZE |-> R(1000)],
      [i \in 1..FM_FRAME_SIZE |-> Zero],
      [i \in 1..FM_FRAME_SIZE |-> One]>>,
    <<[i \in 1..FM_FRAME_SIZE |-> IF i % 2 = 1 THEN R(30000) ELSE R(2000)],
      [i \in 1..FM_FRAME_SIZE |-> IF i % 2 = 1 THEN Rat(3, 2) ELSE R(25)],
      [i \in 1..FM_FRAME_SIZE |-> R(2)]>> }

MoogSamples == {Rat(1, 2), R(-1)}

MoogParams == { <<R(2000), Rat(3, 2), One>> }

InitMoog ==
  /\ IdleMoog
  /\ IdleCB
  /\ IdleAdsr
  /\ IdleShared
  /\ IdleComp
  /\ IdleBiquad

\* Effect::apply_all on one frame
MoogApplyAll ==
  /\ moog_calls < MaxMoogCalls
  /\ \E samples \in MoogFrames, rendered_params \in MoogParamFrames :
       \E r \in {MoogFilter_apply_all(moog, rendered_params, samples)} :
         /\ moog' = r.self
         /\ moog_out' = r.samples
         /\ moog_call' = [op |-> "apply_all", rendered_params |-> rendered_params,
                          samples |-> samples]
  /\ moog_calls' = moog_calls + 1
  /\ UNCHANGED outside_moog

\* Effect::apply on one sample
MoogApply ==
  /\ moog_calls < MaxMoogCalls
  /\ \E sample \in MoogSamples, rendered_params \in MoogParams :
       \E r \in {MoogFilter_apply(moog, rendered_params, sample)} :
         /\ moog' = r.self
         /\ moog_out' = <<r.out>>
         /\ moog_call' = [op |-> "apply", rendered_params |-> rendered_params,
                          samples |-> <<sample>>]
  /\ moog_calls' = moog_calls + 1
  /\ UNCHANGED outside_moog

NextMoog == MoogApplyAll \/ MoogApply

SpecMoog == InitMoog /\ [][NextMoog]_vars

-----------------------------------------------------------------------------
(* Biquad specification: a program that drives one BiquadFilter, made by    *)
(* BiquadFilter::default as the compressor makes its filters, and one that  *)
(* asks for Q factors.  Bank specification: one that drives a filter bank.  *)

MaxBiquadApplies == 2
MaxBankCalls == 2

\* <<mode, q, detune, freq, gain>>
BqConfigs ==
  { <<"Lowpass", R(20), Zero, R(11025), Zero>>,
    <<"Highpass", R(2), R(600), R(3675), Zero>>,
    <<"Bandpass", One, R(-1200), R(14700), Zero>>,
    <<"Notch", R(2), Zero, R(3675), Zero>>,
    <<"Peak", One, Zero, R(11025), R(20)>>,
    <<"Lowshelf", One, R(-1200), R(14700), R(20)>>,
    <<"Highshelf", One, Zero, R(3675), R(-20)>> }

BqSamples == {One}

\* the designs of the filters a bank is built from
BankConfigs == {c \in BqConfigs : c[1] \in {"Lowpass", "Notch", "Highshelf"}}

Orders == 0..MaxOrder

\* the filters a bank is built from: two designs in a checkerboard
BankFilters(f1, f2) ==
  [d \in 0..(BANK_LENGTH - 1) |->
     [b \in 0..(BANK_COUNT - 1) |-> IF (d + b) % 2 = 0 THEN f1 ELSE f2]]

InitBiquad ==
  /\ bq_scene \in {"filter", "q_factors"}
  /\ BiquadStart
  /\ IdleCB
  /\ IdleAdsr
  /\ IdleShared
  /\ IdleComp
  /\ IdleMoog

\* BiquadFilter::set_coefficients
BqSetCoefficients ==
  /\ bq_scene = "filter"
  /\ \E c \in BqConfigs :
       /\ bq' = set_coefficients(bq, c[1], c[2], c[3], c[4], c[5])
       /\ bq_call' = [op |-> "set_coefficients", before |-> <<bq.x, bq.y>>, arg |-> c, ret |-> <<>>]
  /\ UNCHANGED <<bq_scene, bq_applies, bq_panicked, bank, bank_out, bank_calls>>
  /\ UNCHANGED outside_biquad

\* BiquadFilter::apply
BqApply ==
  /\ bq_scene = "filter"
  /\ bq_applies < MaxBiquadApplies
  /\ \E input \in BqSamples :
       \E r \in {BiquadFilter_apply(bq, input)} :
         /\ bq' = r.filter
         /\ bq_call' = [op |-> "apply", before |-> <<bq.x, bq.y>>, arg |-> <<input>>, ret |-> <<r.output>>]
  /\ bq_applies' = bq_applies + 1
  /\ UNCHANGED <<bq_scene, bq_panicked, bank, bank_out, bank_calls>>
  /\ UNCHANGED outside_biquad

\* compute_higher_order_biquad_q_factors
ComputeQFactors ==
  /\ bq_scene = "q_factors"
  /\ ~bq_panicked
  /\ \E order \in Orders :
       \E r \in {compute_higher_order_biquad_q_factors(order)} :
         /\ bq_call' = [op |-> "q_factors", before |-> <<bq.x, bq.y>>, arg |-> <<order>>, ret |-> r.values]
         /\ bq_panicked' = r.panicked
  /\ UNCHANGED <<bq_scene, bq, bq_applies, bank, bank_out, bank_calls>>
  /\ UNCHANGED outside_biquad

\* BiquadFilterBank2D::new, and the caller's output array filled
BankNew ==
  /\ bq_scene = "bank"
  /\ ~bq_panicked
  /\ \E c \in BankConfigs, v \in BqSamples :
       \E f1 \in {BiquadFilter_new(c[1], c[2], c[3], c[4], c[5])},
          f2 \in {BiquadFilter_new("Lowpass", R(20), Zero, R(11025), Zero)} :
         \E filters \in {BankFilters(f1, f2)} :
           /\ bank' = BiquadFilterBank2D_new(filters)
           /\ bank_out' = [b \in 0..(BANK_COUNT - 1) |-> v]
           /\ bq_call' = [op |-> "bank_new", before |-> <<bq.x, bq.y>>, arg |-> c, ret |-> <<>>]
  /\ UNCHANGED <<bq_scene, bq, bq_applies, bq_panicked, bank_calls>>
  /\ UNCHANGED outside_biquad

\* BiquadFilterBank2D::apply_simd at one depth
BankApplySimd ==
  /\ bq_scene = "bank"
  /\ ~bq_panicked
  /\ bank_calls < MaxBankCalls
  /\ \E depth \in 0..(APPLY_DEPTH_STEPS - 1) :
       \E r \in {apply_simd(bank, bank_out, depth)} :
         /\ bank' = r.self
         /\ bank_out' = r.output
         /\ bq_panicked' = r.panicked
         /\ bq_call' = [op |-> "apply_simd", before |-> <<bq.x, bq.y>>, arg |-> <<depth>>, ret |-> r.lanes]
  /\ bank_calls' = bank_calls + 1
  /\ UNCHANGED <<bq_scene, bq, bq_applies>>
  /\ UNCHANGED outside_biquad

\* the exported apply
BankApply ==
  /\ bq_scene = "bank"
  /\ ~bq_panicked
  /\ bank_calls < MaxBankCalls
  /\ \E input \in BqSamples :
       \E r \in {apply(bank, bank_out, <<input>>)} :
         /\ bank' = r.banks
         /\ bank_out' = r.outputs
         /\ bq_panicked' = r.panicked
         /\ bq_call' = [op |-> "bank_apply", before |-> <<bq.x, bq.y>>, arg |-> <<input>>, ret |-> r.depths]
  /\ bank_calls' = bank_calls + 1
  /\ UNCHANGED <<bq_scene, bq, bq_applies>>
  /\ UNCHANGED outside_biquad

NextBiquad ==
  BqSetCoefficients \/ BqApply \/ ComputeQFactors

SpecBiquad == InitBiquad /\ [][NextBiquad]_vars

\* a program that drives a filter bank
InitBank ==
  /\ bq_scene = "bank"
  /\ BiquadStart
  /\ IdleCB
  /\ IdleAdsr
  /\ IdleShared
  /\ IdleComp
  /\ IdleMoog

NextBank ==
  BankNew \/ BankApplySimd \/ BankApply

SpecBank == InitBank /\ [][NextBank]_vars

-----------------------------------------------------------------------------
(* Claims about CircularBuffer, checked under SpecCB                        *)

\* C1: get(0) returns the value of the most recent set() and get(-k) the value
\* set k calls before it, for every k < LENGTH that has been written.
C1_Roundtrip ==
  \A k \in 0..(Len(written) - 1) : CB_get(cb, -k) = written[k + 1]

\* C2: 0 <= head < LENGTH always; a new buffer is all zeros; set(v) advances
\* head by one modulo LENGTH and writes v to the slot at the new head only;
\* get and read_interpolated change neither head nor any slot.
C2_HeadAndFrame ==
  /\ [](cb.head \in 0..(LENGTH - 1))
  /\ [](cb_call.op = "new" =>
          cb.head = 0 /\ \A i \in 0..(LENGTH - 1) : cb.buffer[i] = Zero)
  /\ [][cb_call'.op = "set" =>
          /\ cb'.head = (cb.head + 1) % LENGTH
          /\ cb'.buffer[cb'.head] = cb_call'.arg
          /\ \A i \in 0..(LENGTH - 1) : i # cb'.head => cb'.buffer[i] = cb.buffer[i]]_vars
  /\ [][cb_call'.op \in {"get", "read_interpolated"} => cb' = cb]_vars

\* C2 witness: a set() has just wrapped the head back to slot 0 of a full ring
C2_Witness ==
  cb_call.op = "set" /\ cb.head = 0 /\ Len(written) = LENGTH /\ cb.buffer[0] = cb_call.arg

\* C23: get(i) with a positive index i aborts the process with a panic
\* instead of returning a sample.
C23_PositiveIndexPanics ==
  (cb_call.op = "get" /\ RGt(cb_call.arg, Zero)) => cb_call.panicked

\* C28: read_interpolated(f) at a whole-number offset f <= 0 returns the same
\* sample as get(f) at every head position; at f = 0 that is the slot at head.
C28_InterpolatedIsGet ==
  \A k \in 0..(LENGTH - 1) : CB_read_interpolated(cb, R(-k)) = CB_get(cb, -k)

-----------------------------------------------------------------------------
(* Claims about Adsr, checked under SpecAdsr                                *)

Half == Rat(1, 2)
Quarter == Rat(1, 4)

\* the last call was a render_frame()
FrameJustRendered == adsr_call = "render_frame"

\* every slot of the frame output holds the same value
SingleValued(out) == \A i \in 1..FRAME_SIZE : out[i] = out[1]

\* C3: with no loop point, once a gated Adsr's phase has reached
\* release_start_phase, every render_frame leaves gate_status GatedFrozen,
\* phase at release_start_phase and cur_frame_output holding one value in all
\* slots, the same value frame after frame.
C3_Freeze ==
  [][(/\ adsr_call' = "render_frame"
      /\ ~adsr.loop_point.some
      /\ adsr.gate_status \in {"Gated", "GatedFrozen"}
      /\ RLe(adsr.release_start_phase, adsr.phase))
     => /\ adsr'.gate_status = "GatedFrozen"
        /\ adsr'.phase = adsr.release_start_phase
        /\ SingleValued(adsr'.cur_frame_output)
        /\ (adsr.gate_status = "GatedFrozen"
              => adsr'.cur_frame_output = adsr.cur_frame_output)]_vars

\* C3 witness: a frame rendered while already frozen, on a rendered table,
\* with the frozen value in the output
C3_Witness ==
  /\ FrameJustRendered
  /\ before_call.gate_status = "GatedFrozen"
  /\ adsr.gate_status = "GatedFrozen"
  /\ adsr.phase = Half
  /\ adsr.release_start_phase = Half
  /\ rendered # ZeroTable
  /\ adsr.cur_frame_output[1] # Zero
  /\ SingleValued(adsr.cur_frame_output)

\* the release point was crossed at or before sample j of the last frame
CrossedBy(j) == before_call.crossed \/ \E i \in 1..j : frame_trace[i].rewrap

\* C4: with release_start_phase = 1/2 and loop_point = 1/4, for any positive
\* len_samples, every sample after a gated Adsr crossed 1/2 and before
\* ungate() has phase in [1/4, 1/2), and gate_status stays Gated.
C4_LoopRange ==
  (/\ FrameJustRendered
   /\ before_call.gate_status = "Gated"
   /\ adsr.release_start_phase = Half
   /\ adsr.loop_point = Some(Quarter))
  => /\ \A j \in 1..Len(frame_trace) :
          CrossedBy(j) => /\ RLe(Quarter, frame_trace[j].after)
                          /\ RLt(frame_trace[j].after, Half)
     /\ adsr.gate_status = "Gated"

\* C5: for len_samples > 0 and 0 <= loop_point < release_start_phase <= 1 (or
\* no loop point), phase is in [0, 1] in every reachable state and the
\* assertion in get_sample never fails.
C5_PhaseInRange == phase_in_range(adsr) /\ ~panicked

\* C6: render_frame called with gate_status Releasing and phase >= 1 fills the
\* output with the last entry of the rendered table, sets Done and skips the
\* per-sample loop, so the output after the call is that value in every slot.
C6_DoneFrame ==
  (/\ FrameJustRendered
   /\ before_call.gate_status = "Releasing"
   /\ RLe(One, before_call.phase))
  => /\ adsr.gate_status = "Done"
     /\ frame_trace = <<>>
     /\ adsr.cur_frame_output = Filled(rendered[RENDERED_BUFFER_SIZE])

\* the configuration of scenario E1
IsE1 ==
  /\ adsr.steps = StepsRamp
  /\ adsr.len_samples = R(128)
  /\ adsr.release_start_phase = One
  /\ ~adsr.loop_point.some

\* C7: the render_frame during which a gated, non-looping Adsr's phase first
\* reaches release_start_phase renders all FRAME_SIZE samples and leaves
\* gate_status Gated with phase locked at release_start_phase; gate_status
\* becomes GatedFrozen only in the following render_frame.  In E1 the status
\* after gate() and one render_frame is Gated.
C7_FreezeOneFrameLater ==
  /\ [][(/\ adsr_call' = "render_frame"
         /\ adsr.gate_status = "Gated"
         /\ ~adsr.loop_point.some
         /\ RLt(adsr.phase, adsr.release_start_phase)
         /\ RLe(adsr.release_start_phase, adsr'.phase))
        => /\ Len(frame_trace') = FRAME_SIZE
           /\ adsr'.gate_status = "Gated"
           /\ adsr'.phase = adsr.release_start_phase]_vars
  /\ [][(adsr'.gate_status = "GatedFrozen" /\ adsr.gate_status # "GatedFrozen")
        => /\ adsr_call' = "render_frame"
           /\ adsr.gate_status = "Gated"
           /\ adsr.phase = adsr.release_start_phase]_vars
  /\ [][(adsr_call = "gate" /\ adsr_call' = "render_frame" /\ IsE1)
        => adsr'.gate_status = "Gated"]_vars

\* C7 witness: E1 after gate() and one render_frame
C7_Witness ==
  /\ IsE1
  /\ FrameJustRendered
  /\ before_call.gate_status = "Gated"
  /\ before_call.phase = Zero
  /\ Len(frame_trace) = FRAME_SIZE
  /\ adsr.gate_status = "Gated"
  /\ adsr.phase = One

\* C8: ungate() on a Gated or GatedFrozen Adsr sets Releasing and phase =
\* release_start_phase and leaves cur_frame_output, the rendered table, steps,
\* loop_point and len_samples unchanged; render_frame never produces Releasing.
C8_UngateFrame ==
  /\ [][(adsr_call' = "ungate" /\ adsr.gate_status \in {"Gated", "GatedFrozen"})
        => /\ adsr'.gate_status = "Releasing"
           /\ adsr'.phase = adsr.release_start_phase
           /\ adsr'.cur_frame_output = adsr.cur_frame_output
           /\ rendered' = rendered
           /\ adsr'.steps = adsr.steps
           /\ adsr'.loop_point = adsr.loop_point
           /\ adsr'.len_samples = adsr.len_samples]_vars
  /\ [][(adsr_call' = "render_frame" /\ adsr'.gate_status = "Releasing")
        => adsr.gate_status = "Releasing"]_vars

\* C8 witness: ungate() has just released an Adsr that was gated mid-attack
C8_Witness ==
  /\ adsr_call = "ungate"
  /\ before_call.gate_status = "Gated"
  /\ before_call.phase = Half
  /\ adsr.release_start_phase = One
  /\ adsr.phase = One
  /\ adsr.gate_status = "Releasing"

\* |a - b| <= 1e-6
Within1e6(a, b) == RLe(RAbs(RSub(a, b)), Rat(1, 1000000))

\* C9: for steps [(0,0,Instant),(1,1,Linear)] render() fills a table that is
\* nondecreasing, is 0 at index 0, reaches 1 at index N-1, and whose entry i
\* equals i/(N-1) within 1e-6.
C9_Endpoints ==
  (adsr_call = "render" /\ adsr.steps = StepsRamp)
  => /\ \A i \in 1..(RENDERED_BUFFER_SIZE - 1) : RLe(rendered[i], rendered[i + 1])
     /\ rendered[1] = Zero
     /\ rendered[RENDERED_BUFFER_SIZE] = One
     /\ \A i \in 0..(RENDERED_BUFFER_SIZE - 1) :
          Within1e6(rendered[i + 1], Rat(i, RENDERED_BUFFER_SIZE - 1))

\* C10 as stated: every per-sample advance that is not a loop rewrap strictly
\* increases phase.
C10_StrictlyMonotonic ==
  \A j \in 1..Len(frame_trace) :
    ~frame_trace[j].rewrap => RLt(frame_trace[j].before, frame_trace[j].after)

\* C10 amended: a per-sample advance that is not a loop rewrap never decreases
\* phase, and repeats it only where the phase is clamped at 1 or locked at
\* release_start_phase; between calls phase decreases only at gate(), ungate()
\* or in a frame with a loop rewrap.
C10_Monotonic ==
  /\ [](\A j \in 1..Len(frame_trace) :
          ~frame_trace[j].rewrap
          => /\ RLe(frame_trace[j].before, frame_trace[j].after)
             /\ (frame_trace[j].before = frame_trace[j].after
                   => frame_trace[j].after = One \/ frame_trace[j].lock))
  /\ [][RLt(adsr'.phase, adsr.phase)
        => \/ adsr_call' \in {"gate", "ungate"}
           \/ (adsr_call' = "render_frame"
               /\ \E j \in 1..Len(frame_trace') : frame_trace'[j].rewrap)]_vars

\* C10 witness: a frame in which the phase rose sample by sample, was then
\* locked at the release point and repeated there
C10_Witness ==
  /\ FrameJustRendered
  /\ Len(frame_trace) = FRAME_SIZE
  /\ RLt(frame_trace[1].before, frame_trace[1].after)
  /\ frame_trace[FRAME_SIZE].lock
  /\ frame_trace[FRAME_SIZE].before = frame_trace[FRAME_SIZE].after

\* C25: once gate_status is Done, render_frame changes neither
\* cur_frame_output, phase nor gate_status, and the only operation that takes
\* the Adsr out of Done is gate(), which sets Gated with phase 0.
C25_DoneUntilGate ==
  [][adsr.gate_status = "Done" =>
       /\ adsr_call' = "render_frame" =>
            /\ adsr'.cur_frame_output = adsr.cur_frame_output
            /\ adsr'.phase = adsr.phase
            /\ adsr'.gate_status = "Done"
       /\ adsr'.gate_status # "Done" =>
            /\ adsr_call' = "gate"
            /\ adsr'.gate_status = "Gated"
            /\ adsr'.phase = Zero]_vars

\* C27: after ungate(), with no gate() or ungate() after it, repeated
\* render_frame calls reach gate_status = Done, and the status is Done in
\* every later frame: each render_frame of a releasing Adsr ends Done or
\* leaves the phase, which is clamped to 1, nearer to 1 than it found it, and
\* a render_frame of a Done Adsr leaves it Done.
C27_ReleaseEnds ==
  [][adsr_call' = "render_frame" =>
       /\ adsr.gate_status = "Releasing" =>
            adsr'.gate_status = "Done" \/ RLt(adsr.phase, adsr'.phase)
       /\ adsr.gate_status = "Done" => adsr'.gate_status = "Done"]_vars

-----------------------------------------------------------------------------
(* Claims about shared tables, checked under SpecShared                     *)

Sharing == handles[1] = handles[2]

\* C11: when the instances hold the same table handle, a render() by either
\* of them replaces the table that both read in later render_frame calls
\* (each sees the table of the most recent render(), and a frame is computed
\* from it); gate(), ungate() and render_frame() never write the table.
C11_SharedTable ==
  /\ [][Sharing /\ sh_call'.op = "render" =>
          \A k \in 1..2 : tables'[handles'[k]] = last_rendered'.table]_vars
  /\ [](Sharing /\ last_rendered.by # 0 =>
          \A k \in 1..2 : tables[handles[k]] = last_rendered.table)
  /\ [][Sharing /\ last_rendered.by # 0 /\ sh_call'.op = "render_frame" =>
          insts'[sh_call'.inst].cur_frame_output =
            render_frame(insts[sh_call'.inst], last_rendered.table).adsr.cur_frame_output]_vars
  /\ [][sh_call'.op \in {"gate", "ungate", "render_frame"} => tables' = tables]_vars

\* C11 witness: instance 2 has just rendered a frame from a table that
\* instance 1 rendered, and the frame is not the one the empty table gives
C11_Witness ==
  /\ Sharing
  /\ sh_call = [op |-> "render_frame", inst |-> 2]
  /\ last_rendered.by = 1
  /\ last_rendered.table # ZeroTable
  /\ insts[2].cur_frame_output # Filled(Zero)

-----------------------------------------------------------------------------
(* Claims about the compressor, checked under SpecComp                      *)

Processed == comp_call.op = "process_compressor"
Bands == 1..3
Slots == 1..COMP_FRAME_SIZE

\* |x| < bound
Below(x, bound) == RLt(RAbs(x), bound)

\* C12: a sample is passed through without gain only if its magnitude is
\* below 1e-4 or the detected level is below -60 dB: every sample with
\* |x| >= 1e-4, positive or negative, goes through level detection, the
\* envelope update and the gain curve (or the -60 dB gate after detection).
C12_SilenceGate ==
  Processed =>
    \A b \in Bands, i \in Slots :
      ~Below(comp_bands[b].trace[i].input, Rat(1, 10000)) =>
        /\ comp_bands[b].trace[i].path \in {"level_gate", "curve"}
        /\ comp_bands[b].trace[i].path = "level_gate" =>
             RLt(comp_bands[b].trace[i].detected_level_db, R(-60))

\* every sample the band read from its ring in the last frame is below 1e-5
AllTiny(band) == \A i \in Slots : Below(band.trace[i].input, Rat(1, 100000))

\* C13: when every sample read from the band's ring has magnitude below 1e-5
\* and output_buf starts zeroed, Compressor.apply leaves output_buf[i] equal
\* to the input sample of slot i for every slot, and leaves top_envelope and
\* bottom_envelope unchanged.
C13_Unity ==
  [][comp_call'.op = "process_compressor" =>
       \A b \in Bands :
         AllTiny(comp_bands'[b]) /\ comp_bands'[b].given = ZeroFrame =>
           /\ \A i \in Slots : comp_bands'[b].left[i] = comp_bands'[b].trace[i].input
           /\ Compressors(mbc')[b].top_envelope = Compressors(mbc)[b].top_envelope
           /\ Compressors(mbc')[b].bottom_envelope = Compressors(mbc)[b].bottom_envelope]_vars

\* C13 witness: a band whose envelopes have moved read a frame of non-zero
\* samples below 1e-5 and left exactly them in the zeroed output
C13_Witness ==
  /\ Processed
  /\ \E b \in Bands :
       /\ AllTiny(comp_bands[b])
       /\ comp_bands[b].given = ZeroFrame
       /\ \A i \in Slots : comp_bands[b].trace[i].input # Zero
       /\ \A i \in Slots : comp_bands[b].left[i] = comp_bands[b].trace[i].input
       /\ Compressors(mbc)[b].bottom_envelope # Zero

\* no slot of the band's last frame reached the gain curve
AllGated(band) == \A i \in Slots : band.trace[i].path # "curve"

\* C14: a sample whose detected level is below -60 dB is added to the output
\* unchanged and still updates the envelopes; the gain reported after the
\* frame is that of the most recent sample that reached the gain curve, so a
\* frame in which every sample is gated leaves last_applied_gain at the value
\* it had before the call.
C14_GainKept ==
  [][comp_call'.op = "process_compressor" =>
       \A b \in Bands :
         /\ \A i \in Slots :
              comp_bands'[b].trace[i].path = "level_gate" =>
                comp_bands'[b].trace[i].added = comp_bands'[b].trace[i].input
         /\ AllGated(comp_bands'[b]) =>
              Compressors(mbc')[b].last_applied_gain =
                Compressors(mbc)[b].last_applied_gain]_vars

\* the sum over the bands of the terms added to slot i
Added(i) ==
  RAdd(RAdd(comp_bands[1].trace[i].added, comp_bands[2].trace[i].added),
       comp_bands[3].trace[i].added)

\* C15: apply zeroes output_buffer before compression, each of the three
\* Compressor.apply calls adds exactly one term to every slot without
\* overwriting, and afterwards output[i] = post_gain * (low_i + mid_i +
\* high_i), whatever output_buffer held before the call.
C15_Accumulate ==
  Processed =>
    /\ comp_bands[1].given = ZeroFrame
    /\ \A b \in Bands, i \in Slots :
         comp_bands[b].left[i] = RAdd(comp_bands[b].given[i], comp_bands[b].trace[i].added)
    /\ \A i \in Slots : mbc.output_buffer[i] = RMul(comp_call.p.post_gain, Added(i))

\* C15 witness: a second or later frame with post_gain 2 in which every band
\* added a non-zero term to slot 1
C15_Witness ==
  /\ Processed
  /\ frames_done >= 2
  /\ comp_call.p.post_gain = R(2)
  /\ \A b \in Bands : comp_bands[b].trace[1].added # Zero
  /\ mbc.output_buffer[1] # Zero

\* C16: the value apply returns is the dB value of the last detected linear
\* level, for every frame, also one whose samples are all silence-gated.
C16_ReturnsDetected ==
  Processed =>
    \A b \in Bands :
      Compressors(mbc)[b].last_detected_level_linear # Zero =>
        comp_bands[b].ret = gain_to_db(Compressors(mbc)[b].last_detected_level_linear)

\* the sample written to band b's ring d samples before the one written for
\* slot i (0-based) of the last frame; band_written[b][1] is the one written
\* for the last slot
WrittenBefore(b, i, d) == band_written[b][COMP_FRAME_SIZE - i + d]
HasWrittenBefore(b, i, d) == COMP_FRAME_SIZE - i + d <= Len(band_written[b])

\* slot i of band b read the ring at offset -lookahead_samples - frame + i
ReadsAtOffset(b, i) ==
  comp_bands[b].trace[i + 1].input =
    CB_get(Rings(mbc)[b], -comp_call.p.lookahead_samples - COMP_FRAME_SIZE + i)

\* C17 as stated: for slot i the ring is read at offset -lookahead_samples -
\* frame + i, and for lookahead_samples + frame < N the value read is the band
\* sample written one frame plus lookahead_samples before the sample written
\* for slot i of the current frame.
C17_OneFrameEarlier ==
  Processed =>
    \A b \in Bands, i \in 0..(COMP_FRAME_SIZE - 1) :
      /\ ReadsAtOffset(b, i)
      /\ /\ comp_call.p.lookahead_samples + COMP_FRAME_SIZE < MAX_LOOKAHEAD_SAMPLES
         /\ HasWrittenBefore(b, i, COMP_FRAME_SIZE + comp_call.p.lookahead_samples)
         => comp_bands[b].trace[i + 1].input =
              WrittenBefore(b, i, COMP_FRAME_SIZE + comp_call.p.lookahead_samples)

\* C17 amended: the ring is read at that offset, and for lookahead_samples +
\* frame < N - 1 the value read is the band sample written lookahead_samples
\* + 1 samples before the sample written for slot i of the current frame.
C17_LookaheadDelay ==
  Processed =>
    \A b \in Bands, i \in 0..(COMP_FRAME_SIZE - 1) :
      /\ ReadsAtOffset(b, i)
      /\ /\ comp_call.p.lookahead_samples + COMP_FRAME_SIZE < MAX_LOOKAHEAD_SAMPLES - 1
         /\ HasWrittenBefore(b, i, comp_call.p.lookahead_samples + 1)
         => comp_bands[b].trace[i + 1].input =
              WrittenBefore(b, i, comp_call.p.lookahead_samples + 1)

\* C17 witness: with a lookahead of 1, slot 0 read a non-zero sample of the
\* previous frame
C17_Witness ==
  /\ Processed
  /\ comp_call.p.lookahead_samples = 1
  /\ HasWrittenBefore(1, 0, 2)
  /\ comp_bands[1].trace[1].input # Zero
  /\ comp_bands[1].trace[1].input = WrittenBefore(1, 0, 2)
  /\ WrittenBefore(1, 0, 2) # WrittenBefore(1, 0, 1)

\* C18: the bands are compressed in the order low, mid, high (each is handed
\* the output the previous one left), and afterwards sab[b], sab[3+b],
\* sab[6+b], sab[9+b] hold band b's returned level, bottom_envelope,
\* last_output_level_db and last_applied_gain; sab[12..15] are always 0.
C18_Telemetry ==
  /\ \A k \in 12..(SAB_SIZE - 1) : mbc.sab[k] = Zero
  /\ Processed =>
       /\ <<comp_bands[1].band, comp_bands[2].band, comp_bands[3].band>> =
            <<"low", "mid", "high">>
       /\ comp_bands[2].given = comp_bands[1].left
       /\ comp_bands[3].given = comp_bands[2].left
       /\ \A b \in 0..2 :
            /\ mbc.sab[b] = comp_bands[b + 1].ret
            /\ mbc.sab[3 + b] = Compressors(mbc)[b + 1].bottom_envelope
            /\ mbc.sab[6 + b] = Compressors(mbc)[b + 1].last_output_level_db
            /\ mbc.sab[9 + b] = Compressors(mbc)[b + 1].last_applied_gain

\* C18 witness: the three bands published different levels and gains
C18_Witness ==
  /\ Processed
  /\ mbc.sab[0] # mbc.sab[1]
  /\ mbc.sab[1] # mbc.sab[2]
  /\ mbc.sab[9] # mbc.sab[10]
  /\ mbc.sab[3] # mbc.sab[6]

\* the other value of the sensing_method field
OtherSensing(m) == IF m.sensing_method = "Peak" THEN "RMS" ELSE "Peak"

\* C19: two compressors in equal states, stepped with the same frame and
\* arguments except for knee and the sensing_method field, end with the same
\* output_buffer, sab, envelopes and rings.
C19_ReservedInputs ==
  [][comp_call'.op = "process_compressor" =>
       LET other == MultibandCompressor_apply(
                      [mbc EXCEPT !.sensing_method = OtherSensing(mbc)],
                      [comp_call'.p EXCEPT !.knee = R(6)]).self
       IN  /\ other.sensing_method # mbc'.sensing_method
           /\ [other EXCEPT !.sensing_method = mbc'.sensing_method] = mbc']_vars

\* C19 witness: a frame in which a band ran level detection and applied a
\* gain other than 1
C19_Witness ==
  /\ Processed
  /\ \E b \in Bands, i \in Slots :
       /\ comp_bands[b].trace[i].path = "curve"
       /\ comp_bands[b].trace[i].gain # One

-----------------------------------------------------------------------------
(* Claims about MoogFilter, checked under SpecMoog                          *)

\* FM_FRAME_SIZE successive calls of apply, sample i with the parameters
\* rendered for sample i
RECURSIVE apply_each(_, _, _, _, _)
apply_each(self, rendered_params, samples, i, outs) ==
  IF i >= Len(samples) THEN [self |-> self, outs |-> outs]
  ELSE WithValue(
         MoogFilter_apply(self, <<rendered_params[1][i + 1], rendered_params[2][i + 1],
                                  rendered_params[3][i + 1]>>, samples[i + 1]),
         LAMBDA r : apply_each(r.self, rendered_params, samples, i + 1, Append(outs, r.out)))

\* C20: apply_all on a frame yields the same outputs and the same final state
\* (V, dV, tV, last_sample) as one apply per sample with that sample's
\* parameters, and last_sample ends as the frame's final pre-filter input.
C20_ApplyAllIsApply ==
  [][moog_call'.op = "apply_all" =>
       LET each == apply_each(moog, moog_call'.rendered_params, moog_call'.samples, 0, <<>>)
       IN  /\ moog_out' = each.outs
           /\ moog' = each.self
           /\ moog'.last_sample = moog_call'.samples[FM_FRAME_SIZE]]_vars

\* the ring offsets Compressor::apply has read band b's ring at during the
\* frame: the compressed sample of every slot, and the detection window of
\* every slot that went on to level detection
CompressedReads(b) ==
  {read_offset(comp_call.p.lookahead_samples, i) : i \in 0..(COMP_FRAME_SIZE - 1)}

WindowReads(b, i) == {window_ix(DETECT_WINDOW, i, j) : j \in 0..(DETECT_WINDOW - 1)}

Detecting(b) == {i \in 0..(COMP_FRAME_SIZE - 1) : comp_bands[b].trace[i + 1].path # "silence"}

RingReads(b) == CompressedReads(b) \cup UNION {WindowReads(b, i) : i \in Detecting(b)}

\* C24: for every lookahead_samples up to MAX_LOOKAHEAD_SAMPLES, every ring
\* state and every frame, each CircularBuffer.get of Compressor.apply is
\* called with a non-positive offset and resolves to a slot of the ring, so
\* that no frame aborts, with debug assertions or without.
C24_NeverFails ==
  Processed =>
    \A b \in Bands : \A ix \in RingReads(b) :
      /\ ix <= 0
      /\ CB_get_slot(Rings(mbc)[b], ix) \in 0..(CB_LENGTH(Rings(mbc)[b]) - 1)
      /\ \A debug_assertions \in BOOLEAN :
           ~CB_get_call(Rings(mbc)[b], ix, debug_assertions).panicked

\* the largest lookahead, rings that have wrapped, and a band whose slots all
\* went on to level detection
C24_Witness ==
  /\ Processed
  /\ comp_call.p.lookahead_samples = MAX_LOOKAHEAD_SAMPLES
  /\ frames_done * COMP_FRAME_SIZE > MAX_LOOKAHEAD_SAMPLES
  /\ \E b \in Bands : Detecting(b) = 0..(COMP_FRAME_SIZE - 1)

\* C29: for every lookahead_samples up to MAX_LOOKAHEAD_SAMPLES, every ring
\* read of Compressor.apply (the compressed sample and each read of the
\* detection window) is at a distance from the head smaller than the ring
\* capacity, and no ring slot is counted more than once in one level
\* detection.
C29_ReadsWithinRing ==
  Processed =>
    \A b \in Bands :
      /\ \A ix \in RingReads(b) : -ix < CB_LENGTH(Rings(mbc)[b])
      /\ \A i \in Detecting(b) : \A j, k \in WindowReads(b, i) :
           j # k => CB_get_slot(Rings(mbc)[b], j) # CB_get_slot(Rings(mbc)[b], k)

\* the arguments process_compressor hands to the Compressor of band b
BandArgs(p, b) ==
  [attack_ms |-> <<p.low_band_attack_ms, p.mid_band_attack_ms, p.high_band_attack_ms>>[b],
   release_ms |-> <<p.low_band_release_ms, p.mid_band_release_ms, p.high_band_release_ms>>[b],
   bottom_threshold_db |-> <<p.low_band_bottom_threshold_db, p.mid_band_bottom_threshold_db,
                             p.high_band_bottom_threshold_db>>[b],
   top_threshold_db |-> <<p.low_band_top_threshold_db, p.mid_band_top_threshold_db,
                          p.high_band_top_threshold_db>>[b],
   bottom_ratio |-> p.bottom_ratio, top_ratio |-> p.top_ratio]

\* a slot that reached the gain decision with both threshold conditions true
BothThresholds(t, a) ==
  /\ t.path = "curve"
  /\ RGt(t.top_envelope, a.top_threshold_db)
  /\ RLt(t.bottom_envelope, a.bottom_threshold_db)

\* C26: for a sample that passes both gates, the envelopes that decide are
\* the ones already moved towards that sample's level, and the decision has a
\* fixed priority: top_envelope above top_threshold gives the target
\* top_threshold + (top_envelope - top_threshold) / top_ratio; otherwise
\* bottom_envelope below bottom_threshold gives bottom_threshold -
\* (bottom_threshold - bottom_envelope) * bottom_ratio; otherwise the gain is
\* 1 and the target is top_envelope.  With both conditions true the top
\* branch decides.
C26_GainPriority ==
  [][comp_call'.op = "process_compressor" =>
       \A b \in Bands, k \in Slots :
         LET t == comp_bands'[b].trace[k]
             a == BandArgs(comp_call'.p, b)
             attack == compute_attack_coefficient(a.attack_ms)
             release == compute_release_coefficient(a.release_ms)
             top_before == IF k = 1 THEN Compressors(mbc)[b].top_envelope
                           ELSE comp_bands'[b].trace[k - 1].top_envelope
             bottom_before == IF k = 1 THEN Compressors(mbc)[b].bottom_envelope
                              ELSE comp_bands'[b].trace[k - 1].bottom_envelope
         IN  t.path = "curve" =>
               /\ t.top_envelope =
                    follow(IF RGt(t.detected_level_db, top_before) THEN attack ELSE release,
                           top_before, t.detected_level_db)
               /\ t.bottom_envelope =
                    follow(IF RLt(t.detected_level_db, bottom_before) THEN attack ELSE release,
                           bottom_before, t.detected_level_db)
               /\ IF RGt(t.top_envelope, a.top_threshold_db)
                  THEN t.target_volume_db =
                         RAdd(a.top_threshold_db,
                              RDiv(RSub(t.top_envelope, a.top_threshold_db), a.top_ratio))
                  ELSE IF RLt(t.bottom_envelope, a.bottom_threshold_db)
                  THEN t.target_volume_db =
                         RSub(a.bottom_threshold_db,
                              RMul(RSub(a.bottom_threshold_db, t.bottom_envelope),
                                   a.bottom_ratio))
                  ELSE t.gain = One /\ t.target_volume_db = t.top_envelope]_vars

\* a frame in which one slot took the top branch with both conditions true,
\* one the bottom branch and one neither
C26_Witness ==
  /\ Processed
  /\ \E b \in Bands, k \in Slots :
       BothThresholds(comp_bands[b].trace[k], BandArgs(comp_call.p, b))
  /\ \E b \in Bands, k \in Slots :
       /\ comp_bands[b].trace[k].path = "curve"
       /\ ~RGt(comp_bands[b].trace[k].top_envelope, BandArgs(comp_call.p, b).top_threshold_db)
       /\ RLt(comp_bands[b].trace[k].bottom_envelope, BandArgs(comp_call.p, b).bottom_threshold_db)
  /\ \E b \in Bands, k \in Slots :
       /\ comp_bands[b].trace[k].path = "curve"
       /\ comp_bands[b].trace[k].gain = One
       /\ comp_bands[b].trace[k].target_volume_db = comp_bands[b].trace[k].top_envelope

-----------------------------------------------------------------------------
(* Claims about the biquad filters, checked under SpecBiquad and SpecBank   *)

Coefficients(f) ==
  <<f.b0_over_a0, f.b1_over_a0, f.b2_over_a0, f.a1_over_a0, f.a2_over_a0>>

\* C21: set_coefficients leaves the input history x and the output history y
\* as it found them, for every mode and every parameter value.
C21_HistoryKept ==
  bq_call.op = "set_coefficients" =>
    /\ bq.x = bq_call.before[1]
    /\ bq.y = bq_call.before[2]

\* set_coefficients has changed the coefficients of a filter with a history
C21_Witness ==
  /\ bq_call.op = "set_coefficients"
  /\ bq_call.arg[1] = "Highshelf"
  /\ Coefficients(bq) = synthesize("Highshelf", One, Zero, R(3675), R(-20))
  /\ bq.x[1] /= Zero /\ bq.x[2] /= Zero
  /\ bq.y[1] /= Zero /\ bq.y[2] /= Zero

\* C22: compute_higher_order_biquad_q_factors(order) returns exactly order/2
\* values for every even order > 0 (one for order 2, eight for order 16, and
\* as many as the compressor's band-splitter chains are long for its order),
\* and panics, returning no value, for order 0 and for every odd order.
C22_QFactors ==
  bq_call.op = "q_factors" =>
    LET order == bq_call.arg[1]
    IN  IF order > 0 /\ order % 2 = 0
        THEN /\ ~bq_panicked
             /\ Len(bq_call.ret) = order \div 2
             /\ order = 2 => Len(bq_call.ret) = 1
             /\ order = 16 => Len(bq_call.ret) = 8
             /\ order = BAND_SPLITTER_FILTER_ORDER =>
                  Len(bq_call.ret) = BAND_SPLITTER_FILTER_CHAIN_LENGTH
        ELSE /\ bq_panicked
             /\ bq_call.ret = <<>>

\* the Q factors of a sixteenth-order cascade have been computed
C22_Witness ==
  /\ bq_call.op = "q_factors"
  /\ bq_call.arg = <<16>>
  /\ ~bq_panicked
  /\ Len(bq_call.ret) = 8

\* C30: the exported apply calls apply_simd with depth indices that all exist
\* in the bank's planes, so no call indexes outside a plane and the call does
\* not panic, and each apply_simd call that runs stores to every one of the
\* BANK_COUNT lanes exactly once.
C30_DepthsExist ==
  /\ bq_call.op = "bank_apply" =>
       /\ \A k \in 1..Len(bq_call.ret) : bq_call.ret[k] \in 0..(BANK_LENGTH - 1)
       /\ ~bq_panicked
  /\ (bq_call.op = "apply_simd" /\ ~bq_panicked) =>
       \A b \in 0..(BANK_COUNT - 1) :
         Cardinality({k \in 1..Len(bq_call.ret) : bq_call.ret[k] = b}) = 1

====
